---- MODULE Spec2Model ----
(***************************************************************************)
(* GeoExhibit: publish-plan assembly (orchestrator), PublishPlan           *)
(* validation, TimeSpan, CanonicalLayout, HREF resolution, the STAC        *)
(* catalog writer and the publisher, modelled from src/geoexhibit.         *)
(*                                                                         *)
(* Conventions                                                             *)
(*   - a Python str is a sequence of tokens; "/" is always its own token,  *)
(*     so that f-string concatenation is \o and a path can be split;       *)
(*   - a Python dict is a function whose DOMAIN is its key set;            *)
(*   - an Optional value is None or Some(v);                               *)
(*   - a datetime is [t, aware]: t is the instant, aware says whether the  *)
(*     value carries tzinfo.                                               *)
(***************************************************************************)
EXTENDS Integers, Sequences, FiniteSets, TLC

VARIABLES
    mode,          \* which entry point runs: "pipeline", "orchestrator", "publisher", or a probe
    config,        \* the GeoExhibitConfig of the run
    dry_run,       \* run_geoexhibit_pipeline: the dry_run argument
    pc,            \* position of the running call
    err,           \* the exception that ended the run, "none" while none was raised
    features,      \* feature_list of the input FeatureCollection (dicts mutated in place)
    ftype,         \* features.get("type")
    fi,            \* create_publish_plan: index of the feature being processed
    time_spans,    \* create_publish_plan: list(time_provider.for_feature(feature))
    si,            \* create_publish_plan: index of the timespan being processed
    item_id,       \* create_publish_plan: the item_id generated for the pending analyze call
    items,         \* create_publish_plan: the growing item list
    job_id,        \* create_publish_plan: the generated job id
    nextUlid,      \* number of ULIDs generated so far
    calls,         \* log of Analyzer.analyze invocations
    resolved,      \* log of what the time provider returned, one entry per feature resolved
    plan,          \* the PublishPlan (None until constructed)
    validated,     \* plan.validate() has returned without error on plan
    pmtiles_local, \* run_geoexhibit_pipeline: local variable pmtiles_path
    store,         \* keys written to the publisher's target
    writerCalls,   \* number of write_stac_catalog invocations
    catalog,       \* what the last write_stac_catalog returned (None if none / raised)
    verified,      \* result of publisher.verify_publication (None before)
    result,        \* what run_geoexhibit_pipeline returned (None before)
    span_args,     \* TimeSpan probe: the constructor arguments
    span,          \* TimeSpan probe: the constructed object (None before)
    layout,        \* CanonicalLayout probe: the layout object
    path_call,     \* CanonicalLayout probe: the last path computed
    pitem,         \* PublishItem probe: the item
    fid_read,      \* PublishItem probe: the value item.feature_id returned (None before)
    href_call,     \* HrefResolver probe: the last resolve_* call and what it returned
    stac_item,     \* create_stac_item probe: the item document returned (None before)
    analyzers,     \* PluginRegistry probe: the _analyzers dict (None outside the probe)
    reg_call,      \* PluginRegistry probe: the last call and its outcome
    time_provider, \* DeclarativeTimeProvider probe: the constructed provider (None before)
    tp_call,       \* DeclarativeTimeProvider probe: the last for_feature call and its outcome
    pub_env,       \* repeated publish_plan: the publisher used and the local files that exist
    pub_log,       \* repeated publish_plan: outcome and target after each call
    plugin_dirs   \* plugin directories on disk and what discover_plugins did with them (None outside discovery)

vars == <<mode, config, dry_run, pc, err, features, ftype, fi, time_spans, si, item_id, items,
          job_id, nextUlid, calls, resolved, plan, validated, pmtiles_local,
          store, writerCalls, catalog, verified, result,
          span_args, span, layout, path_call, pitem, fid_read, href_call,
          stac_item, analyzers, reg_call, time_provider, tp_call,
          pub_env, pub_log,
          plugin_dirs>>

planVars == <<features, ftype, fi, time_spans, si, item_id, items, job_id, nextUlid,
              calls, resolved, plan, validated>>
runVars == <<pmtiles_local, verified, result>>
publishVars == <<store, writerCalls, catalog>>
spanVars == <<span_args, span>>
layoutVars == <<layout, path_call>>
probeVars == <<pitem, fid_read>>
extVars == <<href_call, stac_item, analyzers, reg_call, time_provider, tp_call, pub_env, pub_log, plugin_dirs>>

----------------------------------------------------------------------------
(* Bounds of the model *)

MaxFeatures == 2     \* features in an input FeatureCollection
MaxSpans == 2        \* timespans the time provider returns for one feature
MaxPlanItems == 2    \* items of a plan handed directly to validate()/publish_plan()
MaxTime == 4         \* instants 0..MaxTime for TimeSpan endpoints
MaxNames == 3        \* identifiers/names tried against CanonicalLayout
MaxRoles == 2        \* length of the role list an analyzer gives an asset

----------------------------------------------------------------------------
(* Python values *)

None == [some |-> FALSE]
Some(v) == [some |-> TRUE, val |-> v]

EmptyStr == <<>>

EmptyDict == [k \in {} |-> EmptyStr]
DictGet(d, k, default) == IF k \in DOMAIN d THEN d[k] ELSE default
DictSet(d, k, v) == [x \in (DOMAIN d) \cup {k} |-> IF x = k THEN v ELSE d[x]]
DictUpdate(d, e) == [x \in (DOMAIN d) \cup (DOMAIN e) |-> IF x \in DOMAIN e THEN e[x] ELSE d[x]]

IsPrefix(p, s) == Len(p) <= Len(s) /\ SubSeq(s, 1, Len(p)) = p

RECURSIVE SumSeq(_)
SumSeq(s) == IF s = <<>> THEN 0 ELSE Head(s) + SumSeq(Tail(s))

RECURSIVE Flatten(_)
Flatten(ss) == IF ss = <<>> THEN <<>> ELSE Head(ss) \o Flatten(Tail(ss))

Range(s) == {s[i] : i \in 1..Len(s)}

\* str(new_ulid()): the n-th identifier generated in this process
Digits == <<"0", "1", "2", "3", "4", "5", "6", "7", "8", "9">>
new_ulid(n) == <<"01H", Digits[((n \div 10) % 10) + 1], Digits[(n % 10) + 1]>>

----------------------------------------------------------------------------
(* timespan.py *)

DateTime(t, aware) == [t |-> t, aware |-> aware]

\* dataclass TimeSpan(start, end=None): the generated __init__ stores its arguments
TimeSpan(start, end) == [start |-> start, end |-> end]

is_instant(self) == self.end = None

----------------------------------------------------------------------------
(* layout.py *)

CanonicalLayout(jid) == [job_id |-> jid]

job_root(self) == <<"jobs", "/">> \o self.job_id \o <<"/">>
stac_root(self) == job_root(self) \o <<"stac", "/">>
collection_path(self) == stac_root(self) \o <<"collection.json">>
items_root(self) == stac_root(self) \o <<"items", "/">>
item_path(self, iid) == items_root(self) \o iid \o <<".json">>
pmtiles_root(self) == job_root(self) \o <<"pmtiles", "/">>
pmtiles_path(self) == pmtiles_root(self) \o <<"features.pmtiles">>
assets_root(self) == job_root(self) \o <<"assets", "/">>
\* assets filed under the thumbnails root
asset_path_under_thumbs(self, iid, asset_name) ==
    job_root(self) \o <<"thumbs", "/">> \o iid \o <<"/">> \o asset_name

asset_path(self, iid, asset_name) == assets_root(self) \o iid \o <<"/">> \o asset_name
thumbs_root(self) == job_root(self) \o <<"thumbs", "/">>
thumb_path(self, iid, thumb_name) == thumbs_root(self) \o iid \o <<"/">> \o thumb_name

----------------------------------------------------------------------------
(* analyzer.py, publish_plan.py *)

\* has_extra_fields: whether the object has an extra_fields attribute
\* (core.interfaces.AssetSpec has it, analyzer.AssetSpec does not)
AssetSpec(key, href, roles, has_extra_fields) ==
    [key |-> key, href |-> href, roles |-> roles, has_extra_fields |-> has_extra_fields]

AnalyzerOutput(primary, additional, extra) ==
    [primary_cog_asset |-> primary, additional_assets |-> additional, extra_properties |-> extra]

\* a GeoJSON feature: properties is "absent", "null" or a dict; geometry is
\* "absent", "null", "empty" ({}) or a geometry type
Feature(pkind, props, geom) == [pkind |-> pkind, properties |-> props, geometry |-> geom]

FalsyGeometry == {"absent", "null", "empty"}

PublishItem(iid, feature, timespan, output) ==
    [item_id |-> iid, feature |-> feature, timespan |-> timespan, analyzer_output |-> output]

\* PublishItem.properties: feature.get("properties", {}).copy() updated with extra_properties
item_properties(self) ==
    LET feature_props == IF self.feature.pkind = "absent" THEN EmptyDict
                         ELSE self.feature.properties
        extra == self.analyzer_output.extra_properties
    IN  IF DOMAIN extra # {} THEN DictUpdate(feature_props, extra) ELSE feature_props

\* PublishItem.feature_id
item_feature_id(self) == DictGet(item_properties(self), "feature_id", self.item_id)

PublishPlan(cid, jid, its, meta, pm) ==
    [collection_id |-> cid, job_id |-> jid, items |-> its,
     collection_metadata |-> meta, pmtiles_path |-> pm]

item_count(self) == Len(self.items)

\* a count that does not deduplicate
feature_count_per_item(self) == Len(self.items)

feature_count(self) ==
    Cardinality({item_feature_id(self.items[i]) : i \in 1..Len(self.items)})

\* the per-item checks of PublishPlan.validate, in the order of the loop
RECURSIVE validate_items(_, _)
validate_items(its, i) ==
    IF i > Len(its) THEN "none"
    ELSE IF its[i].item_id = EmptyStr THEN "missing item_id"
    ELSE IF its[i].feature.geometry \in FalsyGeometry THEN "missing geometry"
    ELSE IF its[i].analyzer_output.primary_cog_asset = None THEN "missing primary COG asset"
    ELSE validate_items(its, i + 1)

\* a scan that compares nothing
validate_duplicates_skipped(its, i, seen) == "none"

\* the duplicate scan of PublishPlan.validate: item i is compared with the ids seen before it
RECURSIVE validate_duplicates(_, _, _)
validate_duplicates(its, i, seen) ==
    IF i > Len(its) THEN "none"
    ELSE IF its[i].item_id \in seen THEN "Duplicate item_id"
    ELSE validate_duplicates(its, i + 1, seen \cup {its[i].item_id})

\* an emptiness test that is off by one
validate_off_by_one(self) ==
    IF Len(self.items) <= 1 THEN "must contain at least one item"
    ELSE IF self.collection_id = EmptyStr THEN "must have a collection_id"
    ELSE IF self.job_id = EmptyStr THEN "must have a job_id"
    ELSE IF validate_items(self.items, 1) # "none" THEN validate_items(self.items, 1)
    ELSE validate_duplicates(self.items, 1, {})

\* PublishPlan.validate: "none" when it returns, else the ValueError raised
validate(self) ==
    IF self.items = <<>> THEN "must contain at least one item"
    ELSE IF self.collection_id = EmptyStr THEN "must have a collection_id"
    ELSE IF self.job_id = EmptyStr THEN "must have a job_id"
    ELSE IF validate_items(self.items, 1) # "none" THEN validate_items(self.items, 1)
    ELSE validate_duplicates(self.items, 1, {})

----------------------------------------------------------------------------
(* stac_writer.py *)

\* GeoExhibitConfig: the fields the modelled code reads
Config(bucket, cid, prefix) == [s3_bucket |-> bucket, collection_id |-> cid, ids_prefix |-> prefix]

HrefResolver(cfg, lay) == [config |-> cfg, layout |-> lay, s3_bucket |-> cfg.s3_bucket]

\* an absolute href built on the thumbnail path
resolve_cog_asset_href_thumb(self, iid, asset_name) ==
    <<"s3:", "/", "/">> \o self.s3_bucket \o <<"/">> \o thumb_path(self.layout, iid, asset_name)

resolve_cog_asset_href(self, iid, asset_name) ==
    LET s3_key == asset_path(self.layout, iid, asset_name)
    IN  <<"s3:", "/", "/">> \o self.s3_bucket \o <<"/">> \o s3_key

\* a thumbnail href rooted at "/"
resolve_thumbnail_href_rooted(self, iid, thumb_name) ==
    <<"/", "thumbs", "/">> \o iid \o <<"/">> \o thumb_name

resolve_thumbnail_href(self, iid, thumb_name) ==
    <<"..", "/", "thumbs", "/">> \o iid \o <<"/">> \o thumb_name

resolve_pmtiles_href(self) == <<"..", "/", "pmtiles", "/", "features.pmtiles">>

Link(rel, href) == [rel |-> rel, href |-> href]
Asset(href, roles) == [href |-> href, roles |-> roles]

\* pystac Item.add_asset: assets is an insertion-ordered dict, kept as a
\* sequence of [key, asset]; setting an existing key replaces its value in place
add_asset(assets, key, asset) ==
    IF \E i \in 1..Len(assets) : assets[i].key = key
    THEN [i \in 1..Len(assets) |->
            IF assets[i].key = key THEN [key |-> key, asset |-> asset] ELSE assets[i]]
    ELSE Append(assets, [key |-> key, asset |-> asset])

\* both tags appended without looking at the list
primary_roles_appended(roles) ==
    (IF roles = None THEN <<>> ELSE roles.val) \o <<"data", "primary">>

\* the role normalisation of create_stac_item (lines 176-180)
primary_roles_of(roles) ==
    LET r0 == IF roles = None THEN <<>> ELSE roles.val
        r1 == IF "data" \notin Range(r0) THEN Append(r0, "data") ELSE r0
    IN  IF "primary" \notin Range(r1) THEN Append(r1, "primary") ELSE r1

\* the loop over additional_assets of create_stac_item; both branches of the
\* thumbnail test call resolve_thumbnail_href
RECURSIVE add_additional_assets(_, _, _, _, _)
add_additional_assets(assets, specs, i, resolver, iid) ==
    IF i > Len(specs) THEN assets
    ELSE LET asset_spec == specs[i]
             asset_href == IF asset_spec.roles # None /\ "thumbnail" \in Range(asset_spec.roles.val)
                           THEN resolve_thumbnail_href(resolver, iid, asset_spec.key)
                           ELSE resolve_thumbnail_href(resolver, iid, asset_spec.key)
         IN  add_additional_assets(add_asset(assets, asset_spec.key, Asset(asset_href, asset_spec.roles)),
                                   specs, i + 1, resolver, iid)

\* what makes create_stac_item raise: shape() of a geometry that is no
\* geometry, .key of a missing primary asset, .extra_fields of an asset class
\* that has no such attribute
create_stac_item_error(publish_item) ==
    LET out == publish_item.analyzer_output
    IN  IF publish_item.feature.geometry \in FalsyGeometry THEN "geometry"
        ELSE IF publish_item.feature.pkind = "null" THEN "properties"
        ELSE IF out.primary_cog_asset = None THEN "AttributeError: key"
        ELSE IF ~out.primary_cog_asset.val.has_extra_fields THEN "AttributeError: extra_fields"
        ELSE IF \E i \in 1..Len(out.additional_assets) : ~out.additional_assets[i].has_extra_fields
             THEN "AttributeError: extra_fields"
        ELSE "none"

\* create_stac_item, for an item on which it does not raise
create_stac_item(publish_item, collection_id, cfg, lay) ==
    LET href_resolver == HrefResolver(cfg, lay)
        analyzer_output == publish_item.analyzer_output
        primary_asset == analyzer_output.primary_cog_asset.val
        primary_href == resolve_cog_asset_href(href_resolver, publish_item.item_id, primary_asset.key)
        primary_roles == primary_roles_of(primary_asset.roles)
        assets0 == add_asset(<<>>, primary_asset.key, Asset(primary_href, Some(primary_roles)))
    IN  [id |-> publish_item.item_id,
         collection |-> collection_id,
         geometry |-> publish_item.feature.geometry,
         instant |-> is_instant(publish_item.timespan),
         properties |-> item_properties(publish_item),
         assets |-> add_additional_assets(assets0, analyzer_output.additional_assets, 1,
                                          href_resolver, publish_item.item_id),
         links |-> <<>>]

\* _validate_stac_item: "none" or the ValueError
validate_stac_item(item) ==
    LET idx == {i \in 1..Len(item.assets) :
                    /\ item.assets[i].asset.roles # None
                    /\ item.assets[i].asset.roles.val # <<>>
                    /\ "primary" \in Range(item.assets[i].asset.roles.val)
                    /\ "data" \in Range(item.assets[i].asset.roles.val)}
    IN  IF idx = {} THEN "missing primary COG asset"
        ELSE LET first == CHOOSE i \in idx : \A j \in idx : i <= j
                 href == item.assets[first].asset.href
             IN  IF ~IsPrefix(<<"s3:", "/", "/">>, href) THEN "HREF must be fully qualified S3 URL"
                 ELSE "none"

\* min()/max() over the start and end times of create_stac_collection raise
\* on an empty list and when naive and aware datetimes are compared
effective_end(ts) == IF ts.end # None THEN ts.end.val ELSE ts.start

create_stac_collection_error(p) ==
    IF p.items = <<>> THEN "min() of empty"
    ELSE IF \E i, j \in 1..Len(p.items) :
                \/ p.items[i].timespan.start.aware # p.items[j].timespan.start.aware
                \/ effective_end(p.items[i].timespan).aware # effective_end(p.items[j].timespan).aware
         THEN "TypeError: naive vs aware"
    ELSE IF \E i \in 1..Len(p.items) : p.items[i].feature.geometry \in FalsyGeometry
         THEN "geometry"
    ELSE "none"

\* create_stac_collection plus the self and root links write_stac_catalog adds
create_stac_collection(p, cfg, lay) ==
    [id |-> p.collection_id,
     links |-> (IF p.pmtiles_path # None
                THEN <<Link("pmtiles", resolve_pmtiles_href(HrefResolver(cfg, lay)))>>
                ELSE <<>>)]

RECURSIVE first_item_error(_, _)
first_item_error(its, i) ==
    IF i > Len(its) THEN "none"
    ELSE IF create_stac_item_error(its[i]) # "none" THEN create_stac_item_error(its[i])
    ELSE first_item_error(its, i + 1)

RECURSIVE first_item_invalid(_, _)
first_item_invalid(docs, i) ==
    IF i > Len(docs) THEN "none"
    ELSE IF validate_stac_item(docs[i]) # "none" THEN validate_stac_item(docs[i])
    ELSE first_item_invalid(docs, i + 1)

item_links(iid) ==
    <<Link("root", <<"..", "/", "collection.json">>),
      Link("collection", <<"..", "/", "collection.json">>),
      Link("self", iid \o <<".json">>)>>

\* write_stac_catalog(plan, config): [err, collection, items]; err is "none"
\* when it returns and the exception otherwise
write_stac_catalog(p, cfg) ==
    LET lay == CanonicalLayout(p.job_id)
    IN  IF create_stac_collection_error(p) # "none"
        THEN [err |-> create_stac_collection_error(p)]
        ELSE IF first_item_error(p.items, 1) # "none"
        THEN [err |-> first_item_error(p.items, 1)]
        ELSE
        LET collection0 == create_stac_collection(p, cfg, lay)
            items0 == [i \in 1..Len(p.items) |->
                          create_stac_item(p.items[i], collection0.id, cfg, lay)]
            collection == [collection0 EXCEPT !.links =
                              collection0.links
                              \o <<Link("self", <<"collection.json">>), Link("root", <<"collection.json">>)>>
                              \o [i \in 1..Len(items0) |->
                                     Link("item", <<"items", "/">> \o items0[i].id \o <<".json">>)]]
            docs == [i \in 1..Len(items0) |-> [items0[i] EXCEPT !.links = item_links(items0[i].id)]]
        IN  IF first_item_invalid(docs, 1) # "none"
            THEN [err |-> first_item_invalid(docs, 1)]
            ELSE [err |-> "none",
                  collection |-> [path |-> collection_path(lay), object |-> collection],
                  items |-> [i \in 1..Len(docs) |->
                                [path |-> item_path(lay, docs[i].id), object |-> docs[i]]],
                  job_id |-> p.job_id,
                  collection_id |-> p.collection_id]

----------------------------------------------------------------------------
(* Inputs *)

SeqsUpTo(S, n) == UNION {[1..k -> S] : k \in 0..n}

\* the i-th timespan a time provider may return: instants and intervals, all aware
PoolSpan(i) ==
    IF i % 2 = 1 THEN TimeSpan(DateTime(i, TRUE), None)
    ELSE TimeSpan(DateTime(i, TRUE), Some(DateTime(i + 1, TRUE)))

\* what for_feature may return for one feature: 0..MaxSpans distinct
\* timespans, in ascending or in descending order of their start
TimeSpanSeqs ==
    UNION {{[i \in 1..k |-> PoolSpan(i)], [i \in 1..k |-> PoolSpan(k + 1 - i)]} : k \in 0..MaxSpans}

\* input features: with and without feature_id, without geometry, with "properties": null
FeaturePool ==
    {Feature("dict", [feature_id |-> <<"f1">>, name |-> <<"n1">>], "Polygon"),
     Feature("dict", [name |-> <<"n2">>], "Polygon"),
     Feature("dict", [feature_id |-> <<"f1">>], "null"),
     Feature("null", EmptyDict, "Polygon")}

\* features whose feature_id is the empty string, or that have no "properties" key
UnidentifiedFeatures ==
    {Feature("dict", [feature_id |-> EmptyStr, name |-> <<"n3">>], "Polygon"),
     Feature("absent", EmptyDict, "Polygon")}

FeatureLists == SeqsUpTo(FeaturePool, MaxFeatures) \cup {<<f>> : f \in UnidentifiedFeatures}

Configs == {Config(<<"bucket-a">>, <<"coll">>, EmptyStr), Config(<<"bucket-b">>, <<"coll">>, <<"fx-">>)}

\* outputs of an arbitrary Analyzer handed to create_publish_plan
LocalTif == <<"/", "tmp", "/", "out.tif">>
AnalyzerOutputs ==
    {AnalyzerOutput(Some(AssetSpec(<<"test-cog">>, LocalTif, None, FALSE)), <<>>, EmptyDict),
     AnalyzerOutput(Some(AssetSpec(<<"test-cog">>, LocalTif, None, FALSE)), <<>>,
                    [feature_id |-> <<"fx">>]),
     AnalyzerOutput(None, <<>>, EmptyDict)}

\* DemoAnalyzer.analyze: the output of the analyzer run_geoexhibit_pipeline creates
DemoOutput ==
    AnalyzerOutput(Some(AssetSpec(<<"analysis.tif">>, LocalTif, Some(<<"primary">>), FALSE)),
                   <<>>, [analyzer |-> <<"demo_analyzer">>])

----------------------------------------------------------------------------
(* orchestrator.py: create_publish_plan *)

\* _ensure_feature_has_id that also replaces an id the feature already has
ensure_feature_has_id_always(feature, id_prefix, n) ==
    LET props == IF feature.pkind = "absent" THEN EmptyDict ELSE feature.properties
    IN  [feature EXCEPT !.pkind = "dict",
                        !.properties = DictSet(props, "feature_id", id_prefix \o new_ulid(n))]

\* _ensure_feature_has_id on a feature whose properties are a dict or absent
ensure_feature_has_id(feature, id_prefix, n) ==
    LET props == IF feature.pkind = "absent" THEN EmptyDict ELSE feature.properties
    IN  IF "feature_id" \notin DOMAIN props \/ props["feature_id"] = EmptyStr
        THEN [feature EXCEPT !.pkind = "dict",
                             !.properties = DictSet(props, "feature_id", id_prefix \o new_ulid(n))]
        ELSE [feature EXCEPT !.pkind = "dict", !.properties = props]

needs_feature_id(feature) ==
    LET props == IF feature.pkind = "absent" THEN EmptyDict ELSE feature.properties
    IN  "feature_id" \notin DOMAIN props \/ props["feature_id"] = EmptyStr

\* _build_collection_metadata
build_collection_metadata(cfg, feature_list) ==
    [feature_count |-> Len(feature_list),
     geometry_types |-> {feature_list[i].geometry : i \in 1..Len(feature_list)}
                        \ FalsyGeometry]

Fail(e) == /\ pc' = "failed"
           /\ err' = e

\* lines 36-47: input checks, job id, empty item list
CreatePublishPlanBegin ==
    /\ pc = "create_publish_plan"
    /\ IF ftype # "FeatureCollection"
       THEN /\ Fail("Input must be a GeoJSON FeatureCollection")
            /\ UNCHANGED <<job_id, nextUlid, fi>>
       ELSE IF features = <<>>
       THEN /\ Fail("FeatureCollection is empty")
            /\ UNCHANGED <<job_id, nextUlid, fi>>
       ELSE /\ job_id' = new_ulid(nextUlid + 1)
            /\ nextUlid' = nextUlid + 1
            /\ fi' = 1
            /\ pc' = "feature"
            /\ UNCHANGED err
    /\ UNCHANGED <<mode, config, dry_run, features, ftype, time_spans, si, item_id, items, calls, resolved,
                   plan, validated, pmtiles_local, verified, result>>
    /\ UNCHANGED <<publishVars, spanVars, layoutVars, probeVars, extVars>>

\* the position after the timespan at index s of the current feature was handled
NextPosition(spans, s) ==
    IF s < Len(spans) THEN [pc |-> "span", fi |-> fi, si |-> s + 1]
    ELSE [pc |-> "feature", fi |-> fi + 1, si |-> 0]

\* lines 49-52: _ensure_feature_has_id, then list(time_provider.for_feature(feature))
ResolveFeature ==
    /\ pc = "feature"
    /\ fi <= Len(features)
    /\ IF features[fi].pkind = "null"
       THEN /\ Fail("TypeError: argument of type 'NoneType' is not iterable")
            /\ UNCHANGED <<features, nextUlid, time_spans, resolved, fi, si>>
       ELSE /\ features' = [features EXCEPT ![fi] =
                               ensure_feature_has_id(features[fi], config.ids_prefix, nextUlid + 1)]
            /\ nextUlid' = IF needs_feature_id(features[fi]) THEN nextUlid + 1 ELSE nextUlid
            /\ \E spans \in TimeSpanSeqs :
                  /\ time_spans' = spans
                  /\ resolved' = Append(resolved, spans)
                  /\ LET np == NextPosition(spans, 0)
                     IN  pc' = np.pc /\ fi' = np.fi /\ si' = np.si
            /\ UNCHANGED err
    /\ UNCHANGED <<mode, config, dry_run, ftype, item_id, items, job_id, calls,
                   plan, validated, pmtiles_local, verified, result>>
    /\ UNCHANGED <<publishVars, spanVars, layoutVars, probeVars, extVars>>

\* an item_id that is generated but not consumed: the next one is the same
AnalyzeCallStaleId ==
    /\ pc = "span"
    /\ item_id' = new_ulid(nextUlid + 1)
    /\ nextUlid' = nextUlid
    /\ calls' = Append(calls, [fi |-> fi, feature |-> features[fi], timespan |-> time_spans[si],
                               status |-> "running", output |-> None])
    /\ pc' = "analyzing"
    /\ UNCHANGED <<mode, config, dry_run, err, features, ftype, fi, time_spans, si, items, job_id,
                   resolved, plan, validated, pmtiles_local, verified, result>>
    /\ UNCHANGED <<publishVars, spanVars, layoutVars, probeVars, extVars>>

\* lines 54-57: a fresh item_id, then the call of analyzer.analyze(feature, timespan)
AnalyzeCall ==
    /\ pc = "span"
    /\ item_id' = new_ulid(nextUlid + 1)
    /\ nextUlid' = nextUlid + 1
    /\ calls' = Append(calls, [fi |-> fi, feature |-> features[fi], timespan |-> time_spans[si],
                               status |-> "running", output |-> None])
    /\ pc' = "analyzing"
    /\ UNCHANGED <<mode, config, dry_run, err, features, ftype, fi, time_spans, si, items, job_id, resolved,
                   plan, validated, pmtiles_local, verified, result>>
    /\ UNCHANGED <<publishVars, spanVars, layoutVars, probeVars, extVars>>

\* the analyzer of the run: DemoAnalyzer in run_geoexhibit_pipeline, any Analyzer otherwise
OutputsOfAnalyzer == IF mode = "pipeline" THEN {DemoOutput} ELSE AnalyzerOutputs

\* one Analyzer object serves the whole run: after its first output, every
\* later output has the same assets and extra properties
OutputsOfCall == IF items = <<>> THEN OutputsOfAnalyzer ELSE {items[1].analyzer_output}

\* lines 57-66: analyze returns, the item is constructed and appended
AnalyzeReturn ==
    /\ pc = "analyzing"
    /\ \E analyzer_output \in OutputsOfCall :
          /\ items' = Append(items, PublishItem(item_id, features[fi], time_spans[si], analyzer_output))
          /\ calls' = [calls EXCEPT ![Len(calls)].status = "returned",
                                    ![Len(calls)].output = Some(analyzer_output)]
    /\ LET np == NextPosition(time_spans, si)
       IN  pc' = np.pc /\ fi' = np.fi /\ si' = np.si
    /\ UNCHANGED <<mode, config, dry_run, err, features, ftype, time_spans, item_id, job_id, nextUlid, resolved,
                   plan, validated, pmtiles_local, verified, result>>
    /\ UNCHANGED <<publishVars, spanVars, layoutVars, probeVars, extVars>>

\* an analyzer error that is swallowed: the loop goes on with the next timespan
AnalyzeRaiseSwallowed ==
    /\ pc = "analyzing"
    /\ calls' = [calls EXCEPT ![Len(calls)].status = "raised"]
    /\ LET np == NextPosition(time_spans, si)
       IN  pc' = np.pc /\ fi' = np.fi /\ si' = np.si
    /\ UNCHANGED <<mode, config, dry_run, err, features, ftype, time_spans, item_id, items, job_id,
                   nextUlid, resolved, plan, validated, pmtiles_local, verified, result>>
    /\ UNCHANGED <<publishVars, spanVars, layoutVars, probeVars, extVars>>

\* line 57: analyze raises; nothing in create_publish_plan or run_geoexhibit_pipeline catches it
AnalyzeRaise ==
    /\ pc = "analyzing"
    /\ calls' = [calls EXCEPT ![Len(calls)].status = "raised"]
    /\ Fail("analyzer")
    /\ UNCHANGED <<mode, config, dry_run, features, ftype, fi, time_spans, si, item_id, items, job_id, nextUlid,
                   resolved, plan, validated, pmtiles_local, verified, result>>
    /\ UNCHANGED <<publishVars, spanVars, layoutVars, probeVars, extVars>>

\* lines 68-78: collection metadata, the PublishPlan, plan.validate(), return
CreatePublishPlanFinish ==
    /\ pc = "feature"
    /\ fi > Len(features)
    /\ LET p == PublishPlan(config.collection_id, job_id, items,
                            build_collection_metadata(config, features), None)
       IN  /\ plan' = Some(p)
           /\ err' = validate(p)
           /\ validated' = (validate(p) = "none")
           /\ pc' = IF validate(p) # "none" THEN "failed"
                    ELSE IF mode = "pipeline" THEN "prepare" ELSE "returned"
    /\ UNCHANGED <<mode, config, dry_run, features, ftype, fi, time_spans, si, item_id, items, job_id, nextUlid,
                   calls, resolved, pmtiles_local, verified, result>>
    /\ UNCHANGED <<publishVars, spanVars, layoutVars, probeVars, extVars>>

----------------------------------------------------------------------------
(* publisher.py: S3Publisher *)

Put(key, body) == [op |-> "put", key |-> key, body |-> body, err |-> "none"]
Raise(e) == [op |-> "raise", key |-> EmptyStr, body |-> None, err |-> e]
FileBody(src) == [kind |-> "file", src |-> src]
JsonBody(doc) == [kind |-> "json", doc |-> doc]

\* _upload_assets for one item: the primary asset, then each additional asset
RECURSIVE additional_uploads(_, _, _, _)
additional_uploads(specs, i, lay, iid) ==
    IF i > Len(specs) THEN <<>>
    ELSE LET asset == specs[i]
             s3_key == IF asset.roles # None /\ "thumbnail" \in Range(asset.roles.val)
                       THEN thumb_path(lay, iid, asset.key)
                       ELSE asset_path(lay, iid, asset.key)
         IN  <<Put(s3_key, FileBody(asset.href))>> \o additional_uploads(specs, i + 1, lay, iid)

\* the primary asset stored under its local file name instead of its canonical path
item_uploads_by_href(item, lay) ==
    IF item.analyzer_output.primary_cog_asset = None
    THEN <<Raise("AttributeError: key")>>
    ELSE LET primary_asset == item.analyzer_output.primary_cog_asset.val
         IN  <<Put(primary_asset.href, FileBody(primary_asset.href))>>
             \o additional_uploads(item.analyzer_output.additional_assets, 1, lay, item.item_id)

item_uploads(item, lay) ==
    IF item.analyzer_output.primary_cog_asset = None
    THEN <<Raise("AttributeError: key")>>
    ELSE LET primary_asset == item.analyzer_output.primary_cog_asset.val
         IN  <<Put(asset_path(lay, item.item_id, primary_asset.key), FileBody(primary_asset.href))>>
             \o additional_uploads(item.analyzer_output.additional_assets, 1, lay, item.item_id)

RECURSIVE upload_assets(_, _, _)
upload_assets(its, i, lay) ==
    IF i > Len(its) THEN <<>>
    ELSE item_uploads(its[i], lay) \o upload_assets(its, i + 1, lay)

\* _upload_stac_catalog: the collection, then the items
upload_stac_catalog(stac_data) ==
    <<Put(stac_data.collection.path, JsonBody(stac_data.collection.object))>>
    \o [i \in 1..Len(stac_data.items) |->
           Put(stac_data.items[i].path, JsonBody(stac_data.items[i].object))]

\* _upload_pmtiles, reached only when plan.pmtiles_path is set
upload_pmtiles(p, lay, pm_exists) ==
    IF p.pmtiles_path # None /\ pm_exists
    THEN <<Put(pmtiles_path(lay), FileBody(p.pmtiles_path.val))>>
    ELSE <<>>

HasRaise(ops) == \E i \in 1..Len(ops) : ops[i].err # "none"

\* S3Publisher.publish_plan as the sequence of its store operations and of its
\* call of write_stac_catalog, up to and including the first step that raises
\* by itself
publish_plan_ops(p, cfg, pm_exists) ==
    LET lay == CanonicalLayout(p.job_id)
        uploads == upload_assets(p.items, 1, lay)
        stac_data == write_stac_catalog(p, cfg)
        writer == [op |-> "write_stac_catalog", key |-> EmptyStr, body |-> None,
                   err |-> stac_data.err]
    IN  IF HasRaise(uploads)
        THEN SubSeq(uploads, 1, CHOOSE i \in 1..Len(uploads) :
                                   /\ uploads[i].err # "none"
                                   /\ \A j \in 1..(i - 1) : uploads[j].err = "none")
        ELSE IF stac_data.err # "none"
        THEN Append(uploads, writer)
        ELSE Append(uploads, writer) \o upload_stac_catalog(stac_data) \o upload_pmtiles(p, lay, pm_exists)

\* the store after the first n operations completed
store_after(st, ops, n) ==
    LET keys == {ops[i].key : i \in {j \in 1..n : ops[j].op = "put"}}
        last(k) == CHOOSE i \in 1..n : /\ ops[i].op = "put" /\ ops[i].key = k
                                       /\ \A j \in (i + 1)..n : ~(ops[j].op = "put" /\ ops[j].key = k)
    IN  [k \in (DOMAIN st) \cup keys |-> IF k \in keys THEN ops[last(k)].body ELSE st[k]]

\* publisher.publish_plan(plan): n operations complete; the next one raises by
\* itself or is a store operation that fails (missing local file, ClientError)
PublishPlanCall ==
    /\ pc = "publish"
    /\ ~dry_run
    /\ \E pm_exists \in (IF plan.val.pmtiles_path = None THEN {TRUE} ELSE BOOLEAN) :
       \E ops \in {publish_plan_ops(plan.val, config, pm_exists)} :
           \E n \in 0..Len(ops) :
              /\ \A i \in 1..n : ops[i].err = "none"
              /\ n < Len(ops) => (ops[n + 1].err # "none" \/ ops[n + 1].op = "put")
              /\ store' = store_after(store, ops, n)
              /\ LET attempted == IF n < Len(ops) THEN n + 1 ELSE n
                 IN  writerCalls' = writerCalls
                        + Cardinality({i \in 1..attempted : ops[i].op = "write_stac_catalog"})
              /\ catalog' = IF \E i \in 1..n : ops[i].op = "write_stac_catalog"
                            THEN Some(write_stac_catalog(plan.val, config))
                            ELSE None
              /\ IF n = Len(ops)
                 THEN /\ pc' = IF mode = "pipeline" THEN "verify" ELSE "published"
                      /\ UNCHANGED err
                 ELSE Fail(IF ops[n + 1].err # "none" THEN ops[n + 1].err ELSE "upload failed")
    /\ UNCHANGED <<mode, config, dry_run, planVars, runVars, spanVars, layoutVars, probeVars, extVars>>

----------------------------------------------------------------------------
(* pipeline.py: run_geoexhibit_pipeline *)

\* validate_feature_collection: the first feature without a geometry raises;
\* a feature without "properties" gets an empty dict
validate_feature_collection_error(fl) ==
    IF \E i \in 1..Len(fl) : fl[i].geometry \in FalsyGeometry
    THEN "Feature must have a geometry" ELSE "none"

\* ensure_feature_ids: [features, n] after the loop, n the ULIDs generated so far
RECURSIVE ensure_feature_ids(_, _, _)
ensure_feature_ids(fl, i, n) ==
    IF i > Len(fl) THEN [features |-> fl, n |-> n]
    ELSE IF needs_feature_id(fl[i])
    THEN ensure_feature_ids([fl EXCEPT ![i] = ensure_feature_has_id(fl[i], EmptyStr, n + 1)], i + 1, n + 1)
    ELSE ensure_feature_ids([fl EXCEPT ![i] = ensure_feature_has_id(fl[i], EmptyStr, n + 1)], i + 1, n)

\* lines 36-40: load_and_validate_features, create_demo_analyzer
LoadFeatures ==
    /\ pc = "load"
    /\ IF ftype # "FeatureCollection"
       THEN /\ Fail("Input must be a GeoJSON FeatureCollection")
            /\ UNCHANGED <<features, nextUlid>>
       ELSE IF validate_feature_collection_error(features) # "none"
       THEN /\ Fail(validate_feature_collection_error(features))
            /\ UNCHANGED <<features, nextUlid>>
       ELSE IF \E i \in 1..Len(features) : features[i].pkind = "null"
       THEN /\ Fail("TypeError: argument of type 'NoneType' is not iterable")
            /\ UNCHANGED <<features, nextUlid>>
       ELSE /\ features' = ensure_feature_ids(features, 1, nextUlid).features
            /\ nextUlid' = ensure_feature_ids(features, 1, nextUlid).n
            /\ pc' = "create_publish_plan"
            /\ UNCHANGED err
    /\ UNCHANGED <<mode, config, dry_run, ftype, fi, time_spans, si, item_id, items, job_id, calls, resolved,
                   plan, validated>>
    /\ UNCHANGED <<runVars, publishVars, spanVars, layoutVars, probeVars, extVars>>

LocalPmtiles == <<"/", "tmp", "/", "features.pmtiles">>

\* lines 47-55: generate_pmtiles_plan in its try/except, then create_publisher
\* (S3Publisher.__init__ raises when the bucket cannot be reached; it calls
\* head_bucket only when dry_run is not set)
PreparePublisher ==
    /\ pc = "prepare"
    /\ \E generated \in BOOLEAN :
          /\ pmtiles_local' = IF generated THEN Some(LocalPmtiles) ELSE None
          /\ plan' = IF generated THEN Some([plan.val EXCEPT !.pmtiles_path = Some(LocalPmtiles)])
                     ELSE plan
    /\ \E bucket_ok \in (IF dry_run THEN {TRUE} ELSE BOOLEAN) :
          IF bucket_ok THEN pc' = "publish" /\ UNCHANGED err
          ELSE Fail("Error accessing S3 bucket")
    /\ UNCHANGED <<mode, config, dry_run, features, ftype, fi, time_spans, si, item_id, items, job_id, nextUlid,
                   calls, resolved, validated, verified, result>>
    /\ UNCHANGED <<publishVars, spanVars, layoutVars, probeVars, extVars>>

\* lines 57, 65-77 with dry_run set: the result is returned without publishing
ReturnDryRun ==
    /\ pc = "publish"
    /\ dry_run
    /\ result' = Some([job_id |-> plan.val.job_id,
                       collection_id |-> plan.val.collection_id,
                       item_count |-> item_count(plan.val),
                       feature_count |-> feature_count(plan.val),
                       pmtiles_generated |-> (pmtiles_local # None),
                       dry_run |-> dry_run,
                       verification_passed |-> FALSE])
    /\ pc' = "done"
    /\ UNCHANGED <<mode, config, dry_run, err, planVars, pmtiles_local, verified>>
    /\ UNCHANGED <<publishVars, spanVars, layoutVars, probeVars, extVars>>

----------------------------------------------------------------------------
(* Plans handed directly to Publisher.publish_plan *)

AssetA == AssetSpec(<<"analysis.tif">>, LocalTif, None, TRUE)
AssetB == AssetSpec(<<"cog.tif">>, <<"s3:", "/", "/", "elsewhere", "/", "x.tif">>,
                    Some(<<"data", "primary">>), TRUE)
Thumb == AssetSpec(<<"thumb.png">>, <<"/", "tmp", "/", "thumb.png">>, Some(<<"thumbnail">>), TRUE)
Shadow == AssetSpec(<<"analysis.tif">>, <<"/", "tmp", "/", "other.tif">>, Some(<<"overview">>), TRUE)
AssetNoExtra == AssetSpec(<<"analysis.tif">>, LocalTif, Some(<<"primary">>), FALSE)

DirectOutputs ==
    {AnalyzerOutput(Some(AssetA), <<>>, EmptyDict),
     AnalyzerOutput(Some(AssetB), <<Thumb>>, EmptyDict),
     AnalyzerOutput(Some(AssetA), <<Shadow>>, EmptyDict),
     AnalyzerOutput(Some(AssetNoExtra), <<>>, EmptyDict),
     AnalyzerOutput(None, <<>>, EmptyDict)}

DirectItems ==
    {PublishItem(iid, Feature("dict", [feature_id |-> <<"f1">>], geom), PoolSpan(1), out) :
        iid \in {<<"A">>, <<"B">>}, geom \in {"Polygon", "null"}, out \in DirectOutputs}

DirectPlans ==
    {PublishPlan(<<"coll">>, <<"J1">>, its, [feature_count |-> Len(its)], pm) :
        its \in SeqsUpTo(DirectItems, MaxPlanItems),
        pm \in {None, Some(LocalPmtiles)}}

----------------------------------------------------------------------------
(* Specification: the three entry points *)

IdleCore ==
    /\ err = "none"
    /\ fi = 0 /\ si = 0
    /\ time_spans = <<>> /\ item_id = EmptyStr /\ items = <<>> /\ job_id = EmptyStr
    /\ nextUlid = 0
    /\ calls = <<>> /\ resolved = <<>>
    /\ validated = FALSE
    /\ pmtiles_local = None
    /\ store = EmptyDict /\ writerCalls = 0 /\ catalog = None
    /\ verified = None /\ result = None

NoExt ==
    /\ href_call = None
    /\ stac_item = None
    /\ analyzers = None
    /\ reg_call = None
    /\ time_provider = None
    /\ tp_call = None
    /\ pub_env = None
    /\ pub_log = None
    /\ plugin_dirs = None

Idle == IdleCore /\ NoExt

NoProbe ==
    /\ span_args = None /\ span = None
    /\ layout = None /\ path_call = None
    /\ pitem = None /\ fid_read = None

FeatureInputs ==
    /\ \/ ftype = "FeatureCollection" /\ features \in FeatureLists
       \/ ftype = "Feature" /\ features = <<>>
    /\ config \in Configs
    /\ plan = None

\* run_geoexhibit_pipeline(config, features_file, dry_run=...)
InitPipeline ==
    /\ mode = "pipeline" /\ pc = "load"
    /\ dry_run \in BOOLEAN
    /\ FeatureInputs

\* create_publish_plan(features, analyzer, config, time_provider)
InitOrchestrator ==
    /\ mode = "orchestrator" /\ pc = "create_publish_plan"
    /\ dry_run = FALSE
    /\ FeatureInputs

\* S3Publisher(config).publish_plan(plan)
InitPublisher ==
    /\ mode = "publisher" /\ pc = "publish"
    /\ dry_run = FALSE
    /\ ftype = "FeatureCollection" /\ features = <<>>
    /\ config \in Configs
    /\ plan \in {Some(p) : p \in DirectPlans}

Init ==
    /\ Idle
    /\ NoProbe
    /\ InitPipeline \/ InitOrchestrator \/ InitPublisher

Next ==
    \/ LoadFeatures
    \/ CreatePublishPlanBegin
    \/ ResolveFeature
    \/ AnalyzeCall
    \/ AnalyzeReturn
    \/ AnalyzeRaise
    \/ CreatePublishPlanFinish
    \/ PreparePublisher
    \/ PublishPlanCall
    \/ ReturnDryRun

Spec == Init /\ [][Next]_vars

----------------------------------------------------------------------------
(* Specification: PublishPlan.validate() on an arbitrary plan *)

ValidateItems ==
    {PublishItem(iid, Feature("dict", [feature_id |-> <<"f1">>], geom), PoolSpan(1),
                 AnalyzerOutput(primary, <<>>, EmptyDict)) :
        iid \in {EmptyStr, <<"A">>, <<"B">>},
        geom \in {"absent", "null", "empty", "Point"},
        primary \in {None, Some(AssetA)}}

ValidatePlans ==
    {PublishPlan(cid, jid, its, EmptyDict, None) :
        cid \in {EmptyStr, <<"coll">>}, jid \in {EmptyStr, <<"J1">>},
        its \in SeqsUpTo(ValidateItems, MaxPlanItems)}

NoRun ==
    /\ dry_run = FALSE
    /\ ftype = "FeatureCollection" /\ features = <<>>
    /\ config \in {Config(<<"bucket-a">>, <<"coll">>, EmptyStr)}

InitPlan ==
    /\ Idle /\ NoProbe /\ NoRun
    /\ mode = "validate" /\ pc = "validate"
    /\ plan \in {Some(p) : p \in ValidatePlans}

\* plan.validate(): it assigns nothing to the plan
ValidateCall ==
    /\ pc = "validate"
    /\ err' = validate(plan.val)
    /\ validated' = (validate(plan.val) = "none")
    /\ pc' = IF validate(plan.val) = "none" THEN "validated" ELSE "failed"
    /\ plan' = plan
    /\ UNCHANGED <<mode, config, dry_run, features, ftype, fi, time_spans, si, item_id, items, job_id,
                   nextUlid, calls, resolved>>
    /\ UNCHANGED <<runVars, publishVars, spanVars, layoutVars, probeVars, extVars>>

SpecPlan == InitPlan /\ [][ValidateCall]_vars

----------------------------------------------------------------------------
(* Specification: PublishItem.feature_id on an arbitrary item *)

ProbeFeatures ==
    {Feature("absent", EmptyDict, "Point"),
     Feature("null", EmptyDict, "Point"),
     Feature("dict", EmptyDict, "Point"),
     Feature("dict", [feature_id |-> EmptyStr], "Point"),
     Feature("dict", [feature_id |-> <<"f1">>], "Point"),
     Feature("dict", [name |-> <<"n1">>], "Point"),
     Feature("dict", [feature_id |-> <<"f1">>, name |-> <<"n1">>], "Point")}

ProbeExtras ==
    {EmptyDict, [analysis_type |-> <<"test">>], [feature_id |-> <<"fx">>],
     [feature_id |-> <<"f1">>, name |-> <<"n2">>]}

ProbeItems ==
    {PublishItem(iid, f, PoolSpan(1), AnalyzerOutput(Some(AssetA), <<>>, extra)) :
        iid \in {<<"A">>, <<"B">>, <<"C">>}, f \in ProbeFeatures, extra \in ProbeExtras}

InitItem ==
    /\ Idle /\ NoRun
    /\ span_args = None /\ span = None /\ layout = None /\ path_call = None
    /\ mode = "item" /\ pc = "item"
    /\ plan = None
    /\ pitem \in {Some(it) : it \in ProbeItems}
    /\ fid_read = None

\* item.feature_id; feature.get("properties", {}) of "properties": null is
\* None, on which the assert of PublishItem.properties fails
ReadFeatureId ==
    /\ pc = "item"
    /\ IF pitem.val.feature.pkind = "null"
       THEN Fail("AssertionError") /\ UNCHANGED fid_read
       ELSE /\ fid_read' = Some(item_feature_id(pitem.val))
            /\ pc' = "read"
            /\ UNCHANGED err
    /\ UNCHANGED <<mode, config, dry_run, planVars, runVars, publishVars, spanVars, layoutVars, pitem,
                   extVars>>

SpecItem == InitItem /\ [][ReadFeatureId]_vars

----------------------------------------------------------------------------
(* Specification: constructing a TimeSpan *)

DateTimes == {DateTime(t, aware) : t \in 0..MaxTime, aware \in BOOLEAN}

InitTimeSpan ==
    /\ Idle /\ NoRun
    /\ layout = None /\ path_call = None /\ pitem = None /\ fid_read = None
    /\ mode = "timespan" /\ pc = "construct"
    /\ plan = None
    /\ span_args \in {Some([start |-> s, end |-> e]) :
                         s \in DateTimes, e \in {None} \cup {Some(d) : d \in DateTimes}}
    /\ span = None

\* TimeSpan(start=..., end=...): the dataclass has no __post_init__, the
\* constructor stores both arguments and returns
ConstructTimeSpan ==
    /\ pc = "construct"
    /\ span' = Some(TimeSpan(span_args.val.start, span_args.val.end))
    /\ pc' = "constructed"
    /\ UNCHANGED <<mode, config, dry_run, err, planVars, runVars, publishVars, span_args,
                   layoutVars, probeVars, extVars>>

SpecTimeSpan == InitTimeSpan /\ [][ConstructTimeSpan]_vars

----------------------------------------------------------------------------
(* Specification: computing CanonicalLayout paths *)

NamePool == << <<"a1">>, <<"item-456">>, <<"analysis.tif">>, <<"b2">>, <<"c3">> >>
Names == {NamePool[i] : i \in 1..MaxNames}

PathKinds == {"job_root", "collection_path", "item_path", "asset_path", "thumb_path", "pmtiles_path"}

\* the property or method of CanonicalLayout named kind
layout_path(self, kind, iid, name) ==
    CASE kind = "job_root" -> job_root(self)
      [] kind = "collection_path" -> collection_path(self)
      [] kind = "item_path" -> item_path(self, iid)
      [] kind = "asset_path" -> asset_path(self, iid, name)
      [] kind = "thumb_path" -> thumb_path(self, iid, name)
      [] kind = "pmtiles_path" -> pmtiles_path(self)

InitLayout ==
    /\ Idle /\ NoRun
    /\ span_args = None /\ span = None /\ pitem = None /\ fid_read = None
    /\ mode = "layout" /\ pc = "layout"
    /\ plan = None
    /\ layout \in {Some(CanonicalLayout(j)) : j \in Names}
    /\ path_call = None

PathCall(kind, iid, name) ==
    [kind |-> kind, item_id |-> iid, name |-> name, path |-> layout_path(layout.val, kind, iid, name),
     previous |-> IF path_call = None THEN None
                  ELSE Some([kind |-> path_call.val.kind, item_id |-> path_call.val.item_id,
                             name |-> path_call.val.name, path |-> path_call.val.path])]

\* one read of a path property or one call of a path method; the arguments a
\* property or method does not take are fixed
ComputePath ==
    /\ pc = "layout"
    /\ \E kind \in PathKinds :
       \E iid \in (IF kind \in {"item_path", "asset_path", "thumb_path"} THEN Names ELSE {EmptyStr}) :
       \E name \in (IF kind \in {"asset_path", "thumb_path"} THEN Names ELSE {EmptyStr}) :
          path_call' = Some(PathCall(kind, iid, name))
    /\ UNCHANGED <<mode, config, dry_run, pc, err, planVars, runVars, publishVars, spanVars,
                   layout, probeVars, extVars>>

SpecLayout == InitLayout /\ [][ComputePath]_vars

----------------------------------------------------------------------------
(* Specification: resolving hrefs with a HrefResolver *)

\* names handed to the resolver: relative names, a rooted path, an s3 URL
RefNames ==
    {<<"thumb.png">>, <<"analysis.tif">>, <<"/", "etc", "/", "thumb.png">>,
     <<"s3:", "/", "/", "elsewhere", "/", "thumb.png">>}

ResolveKinds == {"resolve_cog_asset_href", "resolve_thumbnail_href", "resolve_pmtiles_href"}

\* the method of HrefResolver named kind; none of the three raises
resolve_href(self, kind, iid, name) ==
    CASE kind = "resolve_cog_asset_href" -> resolve_cog_asset_href(self, iid, name)
      [] kind = "resolve_thumbnail_href" -> resolve_thumbnail_href(self, iid, name)
      [] kind = "resolve_pmtiles_href" -> resolve_pmtiles_href(self)

InitResolver ==
    /\ IdleCore
    /\ dry_run = FALSE
    /\ ftype = "FeatureCollection" /\ features = <<>>
    /\ config \in Configs
    /\ span_args = None /\ span = None /\ pitem = None /\ fid_read = None /\ path_call = None
    /\ mode = "resolver" /\ pc = "resolver"
    /\ plan = None
    /\ layout \in {Some(CanonicalLayout(j)) : j \in Names}
    /\ href_call = None
    /\ stac_item = None
    /\ analyzers = None
    /\ reg_call = None
    /\ time_provider = None
    /\ tp_call = None
    /\ pub_env = None
    /\ pub_log = None
    /\ plugin_dirs = None

\* one call of a resolve_* method of HrefResolver(config, layout)
ResolveHref ==
    /\ pc = "resolver"
    /\ \E kind \in ResolveKinds :
       \E iid \in (IF kind = "resolve_pmtiles_href" THEN {EmptyStr} ELSE {<<"A">>, <<"B">>, <<"C">>}) :
       \E name \in (IF kind = "resolve_pmtiles_href" THEN {EmptyStr} ELSE RefNames) :
          href_call' = Some([kind |-> kind, item_id |-> iid, name |-> name, err |-> "none",
                             href |-> resolve_href(HrefResolver(config, layout.val), kind, iid, name)])
    /\ UNCHANGED <<mode, config, dry_run, pc, err, planVars, runVars, publishVars, spanVars,
                   layoutVars, probeVars>>
    /\ UNCHANGED <<stac_item, analyzers, reg_call, time_provider, tp_call>>
    /\ UNCHANGED <<pub_env, pub_log>>
    /\ UNCHANGED plugin_dirs

SpecResolver == InitResolver /\ [][ResolveHref]_vars

----------------------------------------------------------------------------
(* Specification: create_stac_item on one PublishItem *)

RoleTags == {"data", "primary", "overview", "visual"}

\* role lists without repetition, of up to MaxRoles tags in any order, and the absent list
RoleLists ==
    {None} \cup
    {Some(r) : r \in {s \in UNION {[1..k -> RoleTags] : k \in 0..MaxRoles} :
                          \A i, j \in 1..Len(s) : i # j => s[i] # s[j]}}

StacItemInputs ==
    {PublishItem(iid, Feature("dict", [feature_id |-> <<"f1">>], "Polygon"), PoolSpan(1),
                 AnalyzerOutput(Some(AssetSpec(<<"analysis.tif">>, LocalTif, roles, extra)),
                                <<>>, EmptyDict)) :
        iid \in {<<"A">>, <<"B">>}, roles \in RoleLists, extra \in BOOLEAN}

InitStacItem ==
    /\ IdleCore
    /\ dry_run = FALSE
    /\ ftype = "FeatureCollection" /\ features = <<>>
    /\ config \in Configs
    /\ span_args = None /\ span = None /\ fid_read = None /\ path_call = None
    /\ mode = "create_stac_item" /\ pc = "create_stac_item"
    /\ plan = None
    /\ layout = Some(CanonicalLayout(<<"J1">>))
    /\ pitem \in {Some(it) : it \in StacItemInputs}
    /\ href_call = None
    /\ stac_item = None
    /\ analyzers = None
    /\ reg_call = None
    /\ time_provider = None
    /\ tp_call = None
    /\ pub_env = None
    /\ pub_log = None
    /\ plugin_dirs = None

\* create_stac_item(publish_item, collection, config, layout); it assigns
\* nothing to publish_item: the role list is copied with list(...)
CreateStacItem ==
    /\ pc = "create_stac_item"
    /\ IF create_stac_item_error(pitem.val) # "none"
       THEN Fail(create_stac_item_error(pitem.val)) /\ UNCHANGED stac_item
       ELSE /\ stac_item' = Some(create_stac_item(pitem.val, config.collection_id, config, layout.val))
            /\ pc' = "created"
            /\ UNCHANGED err
    /\ UNCHANGED <<mode, config, dry_run, planVars, runVars, publishVars, spanVars,
                   layoutVars, probeVars, href_call>>
    /\ UNCHANGED <<analyzers, reg_call, time_provider, tp_call>>
    /\ UNCHANGED <<pub_env, pub_log>>
    /\ UNCHANGED plugin_dirs

SpecStacItem == InitStacItem /\ [][CreateStacItem]_vars

----------------------------------------------------------------------------
(* Specification: write_stac_catalog on an arbitrary plan *)

SecondPrimary == AssetSpec(<<"extra.tif">>, <<"/", "tmp", "/", "extra.tif">>,
                           Some(<<"data", "primary">>), TRUE)

WriterOutputs ==
    {AnalyzerOutput(Some(AssetA), <<>>, EmptyDict),
     AnalyzerOutput(Some(AssetB), <<Thumb>>, EmptyDict),
     AnalyzerOutput(Some(AssetA), <<Shadow>>, EmptyDict),
     AnalyzerOutput(Some(AssetA), <<SecondPrimary>>, EmptyDict),
     AnalyzerOutput(Some(AssetB), <<Thumb, SecondPrimary>>, EmptyDict),
     AnalyzerOutput(Some(AssetNoExtra), <<>>, EmptyDict)}

WriterItems ==
    {PublishItem(iid, Feature("dict", [feature_id |-> <<"f1">>], "Polygon"), PoolSpan(1), out) :
        iid \in {<<"A">>, <<"B">>}, out \in WriterOutputs}

WriterPlans ==
    {PublishPlan(<<"coll">>, <<"J1">>, its, [feature_count |-> Len(its)], pm) :
        its \in SeqsUpTo(WriterItems, MaxPlanItems),
        pm \in {None, Some(LocalPmtiles)}}

InitWriter ==
    /\ Idle /\ NoProbe
    /\ dry_run = FALSE
    /\ ftype = "FeatureCollection" /\ features = <<>>
    /\ config \in Configs
    /\ mode = "write_stac_catalog" /\ pc = "write"
    /\ plan \in {Some(p) : p \in WriterPlans}

\* write_stac_catalog(plan, config) without output_dir
WriteCatalog ==
    /\ pc = "write"
    /\ writerCalls' = writerCalls + 1
    /\ LET stac_data == write_stac_catalog(plan.val, config)
       IN  IF stac_data.err # "none"
           THEN Fail(stac_data.err) /\ UNCHANGED catalog
           ELSE catalog' = Some(stac_data) /\ pc' = "written" /\ UNCHANGED err
    /\ UNCHANGED <<mode, config, dry_run, planVars, runVars, store, spanVars, layoutVars,
                   probeVars, extVars>>

SpecWriter == InitWriter /\ [][WriteCatalog]_vars

-----------------------------------------------------------------------------
(* Specification: PluginRegistry, calls of register / create_analyzer / validate_plugin *)

\* a class handed to the decorator: sub is issubclass(cls, Analyzer); analyze is how
\* the class attribute analyze is found ("inherited" is Analyzer's abstract method,
\* "method" a def of the class with the parameter names params, "noncallable" a
\* non-callable attribute, "absent" no attribute); name likewise; init_raises says
\* whether the constructor raises
PluginClass(sub, analyze, params, name, init_raises) ==
    [sub |-> sub, analyze |-> analyze, params |-> params, name |-> name,
     init_raises |-> init_raises]

\* parameter names of Analyzer.analyze
AnalyzeParams == <<"self", "feature", "timespan">>

PluginClasses ==
    {PluginClass(TRUE, "method", AnalyzeParams, "property", FALSE),
     PluginClass(TRUE, "method", AnalyzeParams, "property", TRUE),
     PluginClass(TRUE, "method", <<"self", "wrong_param">>, "property", FALSE),
     PluginClass(TRUE, "method", <<"self", "feat", "ts">>, "property", FALSE),
     PluginClass(TRUE, "method", <<"self", "feature", "timespan", "extra">>, "property", FALSE),
     PluginClass(TRUE, "inherited", AnalyzeParams, "property", FALSE),
     PluginClass(TRUE, "method", AnalyzeParams, "inherited", FALSE),
     PluginClass(TRUE, "noncallable", <<>>, "property", FALSE),
     PluginClass(FALSE, "method", AnalyzeParams, "property", FALSE),
     PluginClass(FALSE, "absent", <<>>, "absent", FALSE)}

RegistryNames == {"a", "b"}

\* PluginRegistry.validate_plugin: the ValueError it raises, "none" if it returns
validate_plugin(analyzer_class) ==
    IF ~analyzer_class.sub THEN "ValueError: must inherit from Analyzer"
    ELSE IF analyzer_class.analyze = "absent" THEN "ValueError: missing required method: analyze"
    ELSE IF analyzer_class.analyze = "noncallable" THEN "ValueError: analyze must be callable"
    ELSE IF analyzer_class.name = "absent" THEN "ValueError: missing required method: name"
    ELSE IF \/ Len(analyzer_class.params) < 3
            \/ analyzer_class.params[2] # "feature"
            \/ analyzer_class.params[3] # "timespan"
         THEN "ValueError: must have signature"
    ELSE "none"

\* the check the decorator returned by PluginRegistry.register makes
register_error(analyzer_class) ==
    IF ~analyzer_class.sub THEN "ValueError: must inherit from Analyzer interface" ELSE "none"

\* analyzer_class(**kwargs) in create_analyzer: a class with an abstract method left
\* cannot be instantiated (TypeError), and a constructor may raise; both are
\* re-raised as ValueError
create_analyzer_error(d, name) ==
    IF name \notin DOMAIN d THEN "ValueError: not found"
    ELSE IF \/ d[name].sub /\ (d[name].analyze = "inherited" \/ d[name].name = "inherited")
            \/ d[name].init_raises
         THEN "ValueError: failed to create analyzer"
    ELSE "none"

RegCall(op, name, cls, e, before) ==
    Some([op |-> op, name |-> name, cls |-> cls, err |-> e, before |-> before])

InitRegistry ==
    /\ IdleCore /\ NoProbe /\ NoRun
    /\ mode = "registry" /\ pc = "registry"
    /\ plan = None
    /\ href_call = None /\ stac_item = None /\ time_provider = None /\ tp_call = None
    /\ analyzers = Some(EmptyDict)
    /\ reg_call = None
    /\ pub_env = None
    /\ pub_log = None
    /\ plugin_dirs = None

RegistryUnchanged ==
    UNCHANGED <<mode, config, dry_run, pc, err, planVars, runVars, publishVars, spanVars,
                layoutVars, probeVars, href_call, stac_item, time_provider, tp_call,
                pub_env, pub_log, plugin_dirs>>

\* @registry.register(name) applied to analyzer_class
Register ==
    /\ pc = "registry"
    /\ \E name \in RegistryNames, analyzer_class \in PluginClasses :
          /\ reg_call' = RegCall("register", name, Some(analyzer_class),
                                 register_error(analyzer_class), analyzers.val)
          /\ analyzers' =
                IF register_error(analyzer_class) # "none" THEN analyzers
                ELSE Some([k \in DOMAIN analyzers.val \cup {name} |->
                              IF k = name THEN analyzer_class ELSE analyzers.val[k]])
    /\ RegistryUnchanged

\* registry.create_analyzer(name); cls is the class instantiated, None if it raised
CreateAnalyzer ==
    /\ pc = "registry"
    /\ \E name \in RegistryNames :
          reg_call' = RegCall("create_analyzer", name,
                              IF create_analyzer_error(analyzers.val, name) = "none"
                              THEN Some(analyzers.val[name]) ELSE None,
                              create_analyzer_error(analyzers.val, name), analyzers.val)
    /\ UNCHANGED analyzers
    /\ RegistryUnchanged

\* registry.validate_plugin(analyzer_class)
ValidatePlugin ==
    /\ pc = "registry"
    /\ \E analyzer_class \in PluginClasses :
          reg_call' = RegCall("validate_plugin", "", Some(analyzer_class),
                              validate_plugin(analyzer_class), analyzers.val)
    /\ UNCHANGED analyzers
    /\ RegistryUnchanged

SpecRegistry == InitRegistry /\ [][Register \/ CreateAnalyzer \/ ValidatePlugin]_vars

-----------------------------------------------------------------------------
(* plugin_registry.py: discover_plugins on the global registry *)

MaxDiscoverCalls == 3

\* a file of a plugin directory: python says whether its name ends in .py,
\* private whether it starts with "_"; executing it registers an analyzer
\* under registers (None: nothing) and raises if raises is set
PluginFile(fname, python, private, registers, raises) ==
    [fname |-> fname, python |-> python, private |-> private,
     registers |-> registers, raises |-> raises]

GoodPlugin == PluginClass(TRUE, "method", AnalyzeParams, "property", FALSE)

PluginFiles ==
    {PluginFile("a.py", TRUE, FALSE, Some("a"), FALSE),
     PluginFile("broken.py", TRUE, FALSE, None, TRUE),
     PluginFile("_private.py", TRUE, TRUE, Some("b"), FALSE),
     PluginFile("notes.txt", FALSE, FALSE, None, FALSE)}

\* directories that exist; "missing" does not
PluginDirs == {"plugins", "extra"}

\* the modules discover_plugins executes in a directory listing
modules_to_load(listing) == {f \in listing : f.python /\ ~f.private}

\* self._analyzers after the modules of a listing ran their @register decorators
analyzers_after_load(d, listing) ==
    LET names == {f.registers.val : f \in {g \in modules_to_load(listing) :
                                              g.registers # None /\ ~g.raises}}
    IN  [k \in DOMAIN d \cup names |-> IF k \in names THEN GoodPlugin ELSE d[k]]

InitDiscovery ==
    /\ IdleCore /\ NoProbe /\ NoRun
    /\ mode = "discovery" /\ pc = "registry"
    /\ plan = None
    /\ href_call = None /\ stac_item = None /\ time_provider = None /\ tp_call = None
    /\ reg_call = None /\ pub_env = None /\ pub_log = None
    /\ analyzers = Some(EmptyDict)
    /\ \E listing \in [PluginDirs -> SUBSET PluginFiles] :
          plugin_dirs = Some([files |-> listing, discovered |-> {}, scanned |-> {},
                              loads |-> 0, ncalls |-> 0, directory |-> "none"])

\* registry.discover_plugins(directory)
DiscoverPlugins ==
    /\ mode = "discovery"
    /\ plugin_dirs.val.ncalls < MaxDiscoverCalls
    /\ \E directory \in PluginDirs \cup {"missing"} :
          LET st == [plugin_dirs.val EXCEPT !.ncalls = @ + 1, !.directory = directory]
          IN  IF directory \notin DOMAIN st.files
              THEN plugin_dirs' = Some(st) /\ UNCHANGED analyzers
              ELSE IF directory \in st.discovered
              THEN /\ plugin_dirs' = Some([st EXCEPT !.scanned = @ \cup {directory}])
                   /\ UNCHANGED analyzers
              ELSE IF {f \in st.files[directory] : f.python} = {}
              THEN /\ plugin_dirs' = Some([st EXCEPT !.scanned = @ \cup {directory}])
                   /\ UNCHANGED analyzers
              ELSE /\ analyzers' = Some(analyzers_after_load(analyzers.val, st.files[directory]))
                   /\ plugin_dirs' =
                         Some([st EXCEPT !.scanned = @ \cup {directory},
                                         !.discovered = @ \cup {directory},
                                         !.loads = @ + Cardinality(modules_to_load(st.files[directory]))])
    /\ UNCHANGED <<mode, config, dry_run, pc, err, planVars, runVars, publishVars, spanVars,
                   layoutVars, probeVars, href_call, stac_item, reg_call, time_provider,
                   tp_call, pub_env, pub_log>>

\* a plugin file is put into a directory between two calls
AddPluginFile ==
    /\ mode = "discovery"
    /\ \E directory \in PluginDirs, f \in PluginFiles :
          /\ f \notin plugin_dirs.val.files[directory]
          /\ plugin_dirs' = Some([plugin_dirs.val EXCEPT !.files[directory] = @ \cup {f}])
    /\ UNCHANGED analyzers
    /\ UNCHANGED <<mode, config, dry_run, pc, err, planVars, runVars, publishVars, spanVars,
                   layoutVars, probeVars, href_call, stac_item, reg_call, time_provider,
                   tp_call, pub_env, pub_log>>

SpecDiscovery == InitDiscovery /\ [][DiscoverPlugins \/ AddPluginFile]_vars

-----------------------------------------------------------------------------
(* declarative_time.py: Python values found in a feature *)

PyNone == [ty |-> "NoneType"]
\* a str, by its lexical form and the instant or number it spells
PyStr(form, t) == [ty |-> "str", form |-> form, t |-> t]
\* an int, counted in units of EpochUnit seconds when read as an epoch
PyInt(n) == [ty |-> "int", n |-> n]
\* a float outside the integers of the model: "nan", "inf", "-inf", "1e20", "-1e20"
PyFloat(x) == [ty |-> "float", x |-> x]
PyList(its) == [ty |-> "list", items |-> its]
PyDict(d) == [ty |-> "dict", d |-> d]
PyDateTime(dt) == [ty |-> "datetime", dt |-> dt]

\* bool(value), as in `if end_value:`
truthy(value) ==
    CASE value.ty = "NoneType" -> FALSE
      [] value.ty = "str" -> value.form # "empty"
      [] value.ty = "int" -> value.n # 0
      [] value.ty = "list" -> value.items # <<>>
      [] value.ty = "dict" -> DOMAIN value.d # {}
      [] OTHER -> TRUE

\* seconds per unit of the epoch numbers of the model
EpochUnit == 6400
\* 4102444800 (Jan 1, 2100 in seconds), in units
EpochThreshold == 641007
\* timestamps of datetime.min and datetime.max in UTC (-62135596800 and
\* 253402300799 seconds), in whole units
MinTimestamp == -9708687
MaxTimestamp == 39594109
\* ticks of one day in the instants date strings spell
DayTicks == 2
\* the tick of datetime.max: adding a timedelta beyond it overflows
DateTimeMax == MaxTime + 1

ValidExtractors ==
    {"attribute_date", "attribute_interval", "fixed_annual_dates", "from_epoch",
     "regex_from_string"}

\* the formats list of _parse_datetime in "auto" mode
AutoFormats ==
    <<"%Y-%m-%d", "%Y-%m-%dT%H:%M:%S", "%Y-%m-%dT%H:%M:%SZ", "%Y-%m-%d %H:%M:%S",
      "%m/%d/%Y", "%d/%m/%Y", "%Y%m%d">>

\* lexical forms only datetime.fromisoformat accepts (with a UTC offset)
IsoOnlyForms == {"iso_offset"}

\* a time configuration dict; field and end_field are the key lists that
\* field_path.split(".") gives, the optional entries hold what config.get returns
TimeConfig(extractor, field, format, as_list, end_field, default_days, pattern) ==
    [extractor |-> extractor, field |-> field, format |-> format, as_list |-> as_list,
     end_field |-> end_field, default_days |-> default_days, pattern |-> pattern]

\* DeclarativeTimeProvider.__init__: config["extractor"] raises KeyError when the
\* key is absent (extractor = None); nothing else is checked
DeclarativeTimeProvider_error(cfg) ==
    IF cfg.extractor = None THEN "KeyError: extractor" ELSE "none"

DeclarativeTimeProvider(cfg) ==
    [config |-> cfg, extractor |-> cfg.extractor.val, field |-> cfg.field,
     format_str |-> cfg.format]

RECURSIVE get_nested_value(_, _)
\* _get_nested_value: None for a missing key and for a non-dict on the way
get_nested_value(current, keys) ==
    IF keys = <<>> THEN current
    ELSE IF current.ty = "dict" /\ Head(keys) \in DOMAIN current.d
         THEN get_nested_value(current.d[Head(keys)], Tail(keys))
         ELSE PyNone

\* _parse_datetime: Some(datetime) or None
parse_datetime(self, value) ==
    IF value.ty = "datetime"
    THEN Some(DateTime(value.dt.t, TRUE))
    ELSE IF value.ty # "str" THEN None
    ELSE IF self.format_str = "auto"
         THEN IF \E i \in 1..Len(AutoFormats) : AutoFormats[i] = value.form
              THEN Some(DateTime(value.t, TRUE))
              ELSE IF value.form \in IsoOnlyForms THEN Some(DateTime(value.t, TRUE))
              ELSE None
         ELSE IF value.form = self.format_str THEN Some(DateTime(value.t, TRUE)) ELSE None

\* the outcome of a for_feature call: the exception raised ("none" if it returned)
\* and the list returned
Returned(spans) == [err |-> "none", spans |-> spans]
Raised(e) == [err |-> e, spans |-> <<>>]

RECURSIVE parse_list(_, _)
\* the fan-out loop of _extract_attribute_date
parse_list(self, values) ==
    IF values = <<>> THEN <<>>
    ELSE LET dt == parse_datetime(self, Head(values))
         IN (IF dt # None THEN <<TimeSpan(dt.val, None)>> ELSE <<>>)
            \o parse_list(self, Tail(values))

\* the fan-out branch left out: a list is handed to _parse_datetime as one value
extract_attribute_date_no_fanout(self, feature) ==
    LET value == get_nested_value(feature, self.field)
        dt == parse_datetime(self, value)
    IN IF value = PyNone THEN Returned(<<>>)
       ELSE Returned(IF dt # None THEN <<TimeSpan(dt.val, None)>> ELSE <<>>)

extract_attribute_date(self, feature) ==
    LET value == get_nested_value(feature, self.field)
    IN IF value = PyNone THEN Returned(<<>>)
       ELSE IF self.config.as_list /\ value.ty = "list"
            THEN Returned(parse_list(self, value.items))
            ELSE LET dt == parse_datetime(self, value)
                 IN Returned(IF dt # None THEN <<TimeSpan(dt.val, None)>> ELSE <<>>)

extract_attribute_interval(self, feature) ==
    LET start_value == get_nested_value(feature, self.field)
        start_dt == parse_datetime(self, start_value)
        end_field == self.config.end_field
        end_value == IF end_field # None THEN get_nested_value(feature, end_field.val)
                     ELSE PyNone
        end_dt == IF end_field # None /\ truthy(end_value)
                  THEN parse_datetime(self, end_value) ELSE None
        default_days == self.config.default_days
    IN IF start_value = PyNone THEN Returned(<<>>)
       ELSE IF start_dt = None THEN Returned(<<>>)
       ELSE IF end_dt # None THEN Returned(<<TimeSpan(start_dt.val, end_dt)>>)
       ELSE IF default_days > 0
            THEN IF start_dt.val.t + default_days * DayTicks > DateTimeMax
                 THEN Raised("OverflowError")
                 ELSE Returned(<<TimeSpan(start_dt.val,
                                          Some(DateTime(start_dt.val.t + default_days * DayTicks,
                                                        start_dt.val.aware)))>>)
            ELSE Returned(<<TimeSpan(start_dt.val, None)>>)

extract_fixed_annual_dates(self, feature) == Returned(<<>>)

\* a number of from_epoch: n / d units, or a float outside the integers of the model
Finite(n, d) == [finite |-> TRUE, n |-> n, d |-> d]
Special(x) == [finite |-> FALSE, x |-> x]

\* float(value) for a value that is neither int nor float: the number, or the
\* exception raised
float_of(value) ==
    IF value.ty = "str"
    THEN CASE value.form = "number" -> [err |-> "none", num |-> Finite(value.t, 1)]
           [] value.form = "inf" -> [err |-> "none", num |-> Special("inf")]
           [] OTHER -> [err |-> "ValueError", num |-> Finite(0, 1)]
    ELSE [err |-> "TypeError", num |-> Finite(0, 1)]

\* the comparison made inclusive
above_threshold_or_equal(num) ==
    IF num.finite THEN num.n >= EpochThreshold * num.d ELSE num.x \in {"inf", "1e20"}

\* timestamp > 4102444800
above_threshold(num) ==
    IF num.finite THEN num.n > EpochThreshold * num.d ELSE num.x \in {"inf", "1e20"}

\* timestamp / 1000
div_1000(num) ==
    IF num.finite THEN Finite(num.n, num.d * 1000)
    ELSE IF num.x = "1e20" THEN Special("1e17") ELSE num

\* datetime.fromtimestamp(timestamp, tz=timezone.utc): the exception it raises.  A
\* timestamp that does not fit time_t raises OverflowError, one gmtime cannot
\* convert raises OSError, a year outside 1..9999 and NaN raise ValueError
fromtimestamp_error(num) ==
    IF num.finite
    THEN IF (num.n \div num.d) \in MinTimestamp..MaxTimestamp THEN "none" ELSE "ValueError"
    ELSE CASE num.x = "nan" -> "ValueError"
           [] num.x = "1e17" -> "OSError"
           [] OTHER -> "OverflowError"

\* the instant of a timestamp: the whole units, and for a timestamp that is not
\* a whole number of units the remaining fraction <<numerator, denominator>>
fromtimestamp(num) ==
    IF num.n % num.d = 0 THEN DateTime(num.n \div num.d, TRUE)
    ELSE [t |-> num.n \div num.d, aware |-> TRUE, frac |-> <<num.n % num.d, num.d>>]

extract_from_epoch(self, feature) ==
    LET value == get_nested_value(feature, self.field)
        conv == IF value.ty = "int" THEN [err |-> "none", num |-> Finite(value.n, 1)]
                ELSE IF value.ty = "float" THEN [err |-> "none", num |-> Special(value.x)]
                ELSE float_of(value)
        timestamp == IF above_threshold(conv.num) THEN div_1000(conv.num) ELSE conv.num
    IN IF value = PyNone THEN Returned(<<>>)
       ELSE IF conv.err # "none" THEN Returned(<<>>)
       ELSE IF fromtimestamp_error(timestamp) = "ValueError" THEN Returned(<<>>)
       ELSE IF fromtimestamp_error(timestamp) # "none" THEN Raised(fromtimestamp_error(timestamp))
       ELSE Returned(<<TimeSpan(fromtimestamp(timestamp), None)>>)

\* re.findall(pattern, value)[0] for the default pattern \d{4}-\d{2}-\d{2} ("date"):
\* the first date spelled in the string, None when there is no match
first_date_match(value) ==
    IF value.form \in {"%Y-%m-%d", "embedded"} THEN Some(PyStr("%Y-%m-%d", value.t))
    ELSE IF value.form \in {"%Y-%m-%dT%H:%M:%S", "%Y-%m-%dT%H:%M:%SZ", "iso_offset"}
         THEN Some(PyStr("%Y-%m-%d", value.t - (value.t % DayTicks)))
    ELSE None

extract_regex_from_string(self, feature) ==
    LET value == get_nested_value(feature, self.field)
        m == first_date_match(value)
        \* a pattern with several groups makes findall return tuples, which
        \* _parse_datetime does not parse
        dt == IF self.config.pattern = "groups" THEN None ELSE parse_datetime(self, m.val)
    IN IF value.ty # "str" THEN Returned(<<>>)
       ELSE IF m = None THEN Returned(<<>>)
       ELSE Returned(IF dt # None THEN <<TimeSpan(dt.val, None)>> ELSE <<>>)

\* DeclarativeTimeProvider.for_feature
declarative_for_feature(self, feature) ==
    CASE self.extractor = "attribute_date" -> extract_attribute_date(self, feature)
      [] self.extractor = "attribute_interval" -> extract_attribute_interval(self, feature)
      [] self.extractor = "fixed_annual_dates" -> extract_fixed_annual_dates(self, feature)
      [] self.extractor = "from_epoch" -> extract_from_epoch(self, feature)
      [] self.extractor = "regex_from_string" -> extract_regex_from_string(self, feature)
      [] OTHER -> Raised("ValueError: Unsupported extractor")

-----------------------------------------------------------------------------
(* Specification: constructing a DeclarativeTimeProvider and resolving features *)

DayTimes == {t \in 0..MaxTime : t % DayTicks = 0}

\* values a feature property may hold
TimeValues ==
    {PyNone}
    \cup {PyStr("%Y-%m-%d", t) : t \in DayTimes}
    \cup {PyStr("%Y-%m-%dT%H:%M:%S", 1), PyStr("%Y-%m-%dT%H:%M:%SZ", 3),
          PyStr("iso_offset", 3), PyStr("embedded", 2), PyStr("text", 0),
          PyStr("empty", 0), PyStr("number", 265625), PyStr("inf", 0)}
    \cup {PyInt(0), PyInt(265625), PyInt(EpochThreshold), PyInt(EpochThreshold + 1),
          PyInt(265625000), PyInt(MinTimestamp - 1),
          PyInt(1), PyInt(1000), PyInt(641), PyInt(641000), PyInt(642), PyInt(642000),
          PyInt(EpochThreshold * 1000)}
    \cup {PyFloat(x) : x \in {"nan", "inf", "-inf", "1e20", "-1e20"}}
    \cup {PyList(<<>>), PyList(<<PyStr("%Y-%m-%d", 2), PyStr("%Y-%m-%d", 0)>>),
          PyList(<<PyStr("%Y-%m-%d", 0), PyStr("text", 0)>>),
          PyList(<<PyStr("%Y-%m-%dT%H:%M:%S", 1)>>)}
    \cup {PyDict([t |-> PyStr("%Y-%m-%d", 0)])}
    \cup {PyDateTime(DateTime(1, FALSE)), PyDateTime(DateTime(1, TRUE))}

\* end values of an interval
EndValues ==
    {PyNone, PyStr("empty", 0), PyStr("text", 0), PyInt(0)}
    \cup {PyStr("%Y-%m-%d", t) : t \in DayTimes}

\* features: the field present with each value, an interval with each end, the
\* field one level deeper, no properties entry, and properties that is not a dict
TimeFeatures ==
    {PyDict([properties |-> PyDict([t |-> v])]) : v \in TimeValues}
    \cup {PyDict([properties |-> PyDict([t |-> PyStr("%Y-%m-%d", 2), end |-> e])]) :
             e \in EndValues}
    \cup {PyDict([properties |-> PyDict([t |-> PyStr("%Y-%m-%d", MaxTime - (MaxTime % DayTicks))])]),
          PyDict([properties |-> PyDict([meta |-> PyDict([t |-> PyStr("%Y-%m-%d", 2)])])]),
          PyDict([properties |-> PyDict([meta |-> PyStr("text", 0)])]),
          PyDict([properties |-> PyDict(EmptyDict)]),
          PyDict([properties |-> PyNone]),
          PyDict([properties |-> PyStr("text", 0)]),
          PyDict([t |-> PyStr("%Y-%m-%d", 2)]),
          PyDict(EmptyDict)}

FieldPaths == {<<"properties", "t">>, <<"properties", "meta", "t">>, <<"t">>}

TimeConfigs ==
    {TimeConfig(x, f, fmt, as_list, e, days, pat) :
        x \in {None} \cup {Some(k) : k \in ValidExtractors \cup {"nope"}},
        f \in FieldPaths, fmt \in {"auto", "%Y-%m-%d"}, as_list \in BOOLEAN,
        e \in {None, Some(<<"properties", "end">>)}, days \in {0, 1},
        pat \in {"date", "groups"}}

InitTimeProvider ==
    /\ IdleCore /\ NoProbe /\ NoRun
    /\ mode = "time_provider" /\ pc = "construct_provider"
    /\ plan = None
    /\ href_call = None /\ stac_item = None /\ analyzers = None /\ reg_call = None
    /\ time_provider = None
    /\ tp_call \in {Some([config |-> c]) : c \in TimeConfigs}
    /\ pub_env = None
    /\ pub_log = None
    /\ plugin_dirs = None

TimeProviderUnchanged ==
    UNCHANGED <<mode, config, dry_run, planVars, runVars, publishVars, spanVars,
                layoutVars, probeVars, href_call, stac_item, analyzers, reg_call,
                pub_env, pub_log, plugin_dirs>>

\* DeclarativeTimeProvider(time_config), as _create_time_provider_from_config calls it
ConstructProvider ==
    /\ pc = "construct_provider"
    /\ IF DeclarativeTimeProvider_error(tp_call.val.config) # "none"
       THEN Fail(DeclarativeTimeProvider_error(tp_call.val.config)) /\ UNCHANGED time_provider
       ELSE /\ time_provider' = Some(DeclarativeTimeProvider(tp_call.val.config))
            /\ pc' = "provider"
            /\ UNCHANGED err
    /\ UNCHANGED tp_call
    /\ TimeProviderUnchanged

\* one call time_provider.for_feature(feature); the provider holds no state the
\* call changes
ForFeature ==
    /\ pc = "provider"
    /\ \E feature \in TimeFeatures :
          tp_call' = Some([config |-> tp_call.val.config, feature |-> feature,
                           out |-> declarative_for_feature(time_provider.val, feature)])
    /\ UNCHANGED <<pc, err, time_provider>>
    /\ TimeProviderUnchanged

SpecTimeProvider == InitTimeProvider /\ [][ConstructProvider \/ ForFeature]_vars

-----------------------------------------------------------------------------
(* Specification: publish_plan called repeatedly with one plan on one target *)

MaxPublishes == 2    \* publish_plan calls on the same target

IsSuffix(x, s) == Len(x) <= Len(s) /\ SubSeq(s, Len(s) - Len(x) + 1, Len(s)) = x

\* _fix_item_link_hrefs on an item document
fix_item_link_hrefs(doc) ==
    [doc EXCEPT !.links =
        [k \in 1..Len(doc.links) |->
            LET link == doc.links[k]
            IN  IF link.rel \in {"root", "collection"} /\ IsSuffix(<<"/", "collection.json">>, link.href)
                THEN Link(link.rel, <<"..", "/", "collection.json">>)
                ELSE IF link.rel = "self" /\ IsSuffix(<<"/">> \o doc.id \o <<".json">>, link.href)
                THEN Link(link.rel, doc.id \o <<".json">>)
                ELSE link]]

\* the collection and item documents write_stac_catalog has built when it reaches
\* its output_dir branch (lines 297-318), for a plan whose documents can be created
stac_documents(p, cfg) ==
    LET lay == CanonicalLayout(p.job_id)
        collection0 == create_stac_collection(p, cfg, lay)
        items0 == [i \in 1..Len(p.items) |->
                      create_stac_item(p.items[i], collection0.id, cfg, lay)]
    IN  [collection |->
            [collection0 EXCEPT !.links =
                collection0.links
                \o <<Link("self", <<"collection.json">>), Link("root", <<"collection.json">>)>>
                \o [i \in 1..Len(items0) |->
                       Link("item", <<"items", "/">> \o items0[i].id \o <<".json">>)]],
         items |-> [i \in 1..Len(items0) |-> [items0[i] EXCEPT !.links = item_links(items0[i].id)]]]

\* LocalPublisher.publish_plan as the sequence of its writes below output_dir and
\* of its call of write_stac_catalog(plan, config, output_dir), which writes the
\* documents itself before it validates them; an asset or pmtiles file that does
\* not exist is skipped
local_publish_ops(p, cfg, assets_exist, pm_exists) ==
    LET lay == CanonicalLayout(p.job_id)
        uploads == upload_assets(p.items, 1, lay)
        copies == IF assets_exist THEN uploads
                  ELSE SelectSeq(uploads, LAMBDA o : o.err # "none")
        stac_data == write_stac_catalog(p, cfg)
        writer == [op |-> "write_stac_catalog", key |-> EmptyStr, body |-> None,
                   err |-> stac_data.err]
        created == create_stac_collection_error(p) = "none" /\ first_item_error(p.items, 1) = "none"
        docs == stac_documents(p, cfg)
        written == <<Put(collection_path(lay), JsonBody(docs.collection))>>
                   \o [i \in 1..Len(docs.items) |->
                          Put(item_path(lay, docs.items[i].id),
                              JsonBody(fix_item_link_hrefs(docs.items[i])))]
    IN  IF HasRaise(copies)
        THEN SubSeq(copies, 1, CHOOSE i \in 1..Len(copies) :
                                  /\ copies[i].err # "none"
                                  /\ \A j \in 1..(i - 1) : copies[j].err = "none")
        ELSE IF ~created THEN Append(copies, writer)
        ELSE IF stac_data.err # "none" THEN copies \o written \o <<writer>>
        ELSE copies \o written \o <<writer>> \o upload_stac_catalog(stac_data)
             \o upload_pmtiles(p, lay, pm_exists)

\* plans on which plan.validate() returns
ValidPlans == {p \in DirectPlans : validate(p) = "none"}

PublishEnvs ==
    {[local |-> l, assets_exist |-> a, pm_exists |-> pm] :
        l \in BOOLEAN, a \in BOOLEAN, pm \in BOOLEAN}

InitRepublish ==
    /\ IdleCore /\ NoProbe
    /\ dry_run = FALSE
    /\ ftype = "FeatureCollection" /\ features = <<>>
    /\ config \in {Config(<<"bucket-a">>, <<"coll">>, EmptyStr)}
    /\ mode = "republish" /\ pc = "publish"
    /\ plan \in {Some(p) : p \in ValidPlans}
    /\ href_call = None /\ stac_item = None /\ analyzers = None /\ reg_call = None
    /\ time_provider = None /\ tp_call = None
    /\ pub_env \in {e \in PublishEnvs : e.local \/ e.assets_exist}
    /\ pub_log = <<>>
    /\ plugin_dirs = None

\* one more publisher.publish_plan(plan) on the same target: n operations complete;
\* an S3 operation may fail, a local write does not
PublishAgain ==
    /\ pc = "publish"
    /\ Len(pub_log) < MaxPublishes
    /\ \E ops \in {IF pub_env.local
                     THEN local_publish_ops(plan.val, config, pub_env.assets_exist, pub_env.pm_exists)
                     ELSE publish_plan_ops(plan.val, config, pub_env.pm_exists)} :
           \E n \in 0..Len(ops) :
              /\ \A i \in 1..n : ops[i].err = "none"
              /\ n < Len(ops) => \/ ops[n + 1].err # "none"
                                 \/ (ops[n + 1].op = "put" /\ ~pub_env.local)
              /\ store' = store_after(store, ops, n)
              /\ writerCalls' = writerCalls
                    + Cardinality({i \in 1..(IF n < Len(ops) THEN n + 1 ELSE n) :
                                      ops[i].op = "write_stac_catalog"})
              /\ catalog' = IF \E i \in 1..n : ops[i].op = "write_stac_catalog"
                            THEN Some(write_stac_catalog(plan.val, config))
                            ELSE None
              /\ pub_log' = Append(pub_log, [complete |-> n = Len(ops),
                                             store |-> store_after(store, ops, n)])
    /\ UNCHANGED <<mode, config, dry_run, pc, err, planVars, runVars, spanVars, layoutVars,
                   probeVars, href_call, stac_item, analyzers, reg_call, time_provider,
                   tp_call, pub_env>>
    /\ UNCHANGED plugin_dirs

SpecRepublish == InitRepublish /\ [][PublishAgain]_vars

----------------------------------------------------------------------------
(* Properties *)

\* create_publish_plan has returned a plan (validated is set only by its last step)
PlanReturned == mode \in {"pipeline", "orchestrator"} /\ validated

\* the number of items whose feature_id no earlier item has
DistinctFeatureIds(its) ==
    Cardinality({i \in 1..Len(its) :
                    \A j \in 1..(i - 1) : item_feature_id(its[j]) # item_feature_id(its[i])})

\* C1: a returned plan has item_count equal to the sum of the numbers of
\* timespans resolved for the N input features, and feature_count equal to
\* the number of distinct feature_id values among its items.
C1_Counts ==
    PlanReturned =>
        /\ Len(resolved) = Len(features)
        /\ item_count(plan.val) = SumSeq([f \in 1..Len(resolved) |-> Len(resolved[f])])
        /\ feature_count(plan.val) = DistinctFeatureIds(plan.val.items)

C1_Witness ==
    /\ PlanReturned
    /\ Len(features) = 2
    /\ \E f \in 1..2 : Len(resolved[f]) = 2
    /\ feature_count(plan.val) < item_count(plan.val)

\* the (feature, timespan) pairs in feature order and, within a feature, in resolver order
ExpectedPairs ==
    Flatten([f \in 1..Len(resolved) |-> [j \in 1..Len(resolved[f]) |-> <<f, resolved[f][j]>>]])

CallPairs == [i \in 1..Len(calls) |-> <<calls[i].fi, calls[i].timespan>>]

\* C2: analyze is invoked once per (feature, timespan) pair, in feature order
\* and resolver order, one invocation finishing before the next starts; item
\* i carries the feature, timespan and output of invocation i; item ids are
\* pairwise different.
C2_OncePerPairInOrder ==
    /\ IsPrefix(CallPairs, ExpectedPairs)
    /\ PlanReturned => CallPairs = ExpectedPairs /\ plan.val.items = items
    /\ \A i \in 1..(Len(calls) - 1) : calls[i].status = "returned"
    /\ Len(items) = Cardinality({i \in 1..Len(calls) : calls[i].status = "returned"})
    /\ \A i \in 1..Len(items) :
          /\ items[i].feature = calls[i].feature
          /\ items[i].feature = features[calls[i].fi]
          /\ items[i].timespan = calls[i].timespan
          /\ items[i].analyzer_output = calls[i].output.val
    /\ \A i, j \in 1..Len(items) : i # j => items[i].item_id # items[j].item_id

C2_Witness ==
    /\ PlanReturned
    /\ Len(items) = 3
    /\ \E f \in 1..Len(resolved) : resolved[f] = <<PoolSpan(2), PoolSpan(1)>>

AnalyzerRaised == \E i \in 1..Len(calls) : calls[i].status = "raised"

C3_Aborted ==
    AnalyzerRaised =>
        /\ pc = "failed" /\ err = "analyzer"
        /\ calls[Len(calls)].status = "raised"
        /\ Len(items) = Len(calls) - 1
        /\ plan = None /\ ~validated /\ result = None
        /\ store = EmptyDict /\ writerCalls = 0 /\ catalog = None

\* C3: once analyze has raised, the run has failed with that error, the
\* raising invocation is the last one, no plan exists, nothing was written,
\* and no further step is taken.
C3_AnalyzerFailureIsFatal == [](C3_Aborted) /\ [][~AnalyzerRaised]_vars

C3_Witness ==
    /\ AnalyzerRaised
    /\ mode = "pipeline"
    /\ Len(calls) = 2
    /\ fi < Len(features)

EmptyPlanError == "must contain at least one item"
ZeroFeatures == {f \in 1..Len(resolved) : resolved[f] = <<>>}

\* C4 as stated: a feature that resolves to zero timespans is never analyzed
\* and never makes create_publish_plan fail, even when every feature does so.
C4_ZeroTimespansNeverFail ==
    \A f \in ZeroFeatures :
        /\ \A i \in 1..Len(calls) : calls[i].fi # f
        /\ err # EmptyPlanError

ResolvedToZero ==
    /\ pc = "feature"
    /\ Len(resolved') = Len(resolved) + 1
    /\ resolved'[Len(resolved')] = <<>>

\* C4 amended: a feature that resolves to zero timespans is never analyzed,
\* contributes no item, and the step that resolves it goes on to the next
\* feature without an error; the plan is rejected as empty only when every
\* feature of the collection resolved to zero timespans.
C4_ZeroTimespansSkipped ==
    /\ [](/\ \A f \in ZeroFeatures : \A i \in 1..Len(calls) : calls[i].fi # f
          /\ err = EmptyPlanError =>
                /\ mode \in {"pipeline", "orchestrator"}
                /\ ZeroFeatures = 1..Len(features))
    /\ [][ResolvedToZero =>
            /\ pc' = "feature" /\ fi' = fi + 1 /\ err' = "none"
            /\ items' = items /\ calls' = calls]_vars

C4_Witness ==
    /\ PlanReturned
    /\ ZeroFeatures # {}
    /\ Len(items) > 0

\* the conditions under which validate() is to raise; Missing is the set of
\* geometry values counted as "no geometry"
C5_Invalid(p, Missing) ==
    \/ p.items = <<>>
    \/ p.collection_id = EmptyStr
    \/ p.job_id = EmptyStr
    \/ \E i \in 1..Len(p.items) :
          \/ p.items[i].item_id = EmptyStr
          \/ p.items[i].feature.geometry \in Missing
          \/ p.items[i].analyzer_output.primary_cog_asset = None
    \/ \E i, j \in 1..Len(p.items) : i # j /\ p.items[i].item_id = p.items[j].item_id

C5_Iff(Missing) ==
    pc = "validate" =>
        /\ plan' = plan
        /\ (err' # "none") <=> C5_Invalid(plan.val, Missing)
        /\ (pc' = "validated") <=> ~C5_Invalid(plan.val, Missing)

\* C5 (as stated): validate() raises exactly when the plan has no items, an
\* empty collection_id or job_id, an item with an empty item_id, a missing or
\* null geometry or no primary asset, or two items with the same item_id; it
\* leaves the plan unchanged.
C5_ValidateIff ==
    [][C5_Iff({"absent", "null"})]_vars

\* C5 (amended): as above, with an empty geometry object ({}) rejected like
\* a missing or null one.
C5_ValidateIffFalsyGeometry ==
    [][C5_Iff(FalsyGeometry)]_vars

\* validate() has rejected a plan whose only defect is an empty geometry object
C5_Witness ==
    /\ mode = "validate"
    /\ pc = "failed"
    /\ err = "missing geometry"
    /\ Len(plan.val.items) = 2
    /\ ~C5_Invalid(plan.val, {"absent", "null"})

\* C6: nothing is written to the store and write_stac_catalog is not invoked
\* for a plan that validate() rejects (duplicate item_id, no items, missing
\* primary asset), whichever entry point the plan came through.
C6_NoWriteBeforeValidate ==
    (store # EmptyDict \/ writerCalls > 0) =>
        (plan # None /\ (validated \/ validate(plan.val) = "none"))

\* C7: item.feature_id is the feature's own properties.feature_id when the
\* feature has one, and item_id otherwise.
C7_FeatureIdOfFeature ==
    fid_read # None =>
        fid_read.val = IF pitem.val.feature.pkind = "dict"
                          /\ "feature_id" \in DOMAIN pitem.val.feature.properties
                       THEN pitem.val.feature.properties["feature_id"]
                       ELSE pitem.val.item_id

InvalidSpanArgs(a) ==
    \/ ~a.start.aware
    \/ a.end # None /\ ~a.end.val.aware
    \/ a.end # None /\ a.end.val.t <= a.start.t

\* C8: construction fails when end <= start or an endpoint is naive; a
\* constructed TimeSpan is an instant exactly when it has no end.
C8_TimeSpanValidated ==
    span # None =>
        /\ ~InvalidSpanArgs(span_args.val)
        /\ is_instant(span.val) <=> (span_args.val.end = None)

\* the path of each kind spelled out from the documented layout
C9_Expected(jid, kind, iid, name) ==
    CASE kind = "job_root" -> <<"jobs", "/">> \o jid \o <<"/">>
      [] kind = "collection_path" -> <<"jobs", "/">> \o jid \o <<"/", "stac", "/", "collection.json">>
      [] kind = "item_path" -> <<"jobs", "/">> \o jid \o <<"/", "stac", "/", "items", "/">> \o iid \o <<".json">>
      [] kind = "asset_path" -> <<"jobs", "/">> \o jid \o <<"/", "assets", "/">> \o iid \o <<"/">> \o name
      [] kind = "thumb_path" -> <<"jobs", "/">> \o jid \o <<"/", "thumbs", "/">> \o iid \o <<"/">> \o name
      [] kind = "pmtiles_path" -> <<"jobs", "/">> \o jid \o <<"/", "pmtiles", "/", "features.pmtiles">>

C9_PathsAsDocumented ==
    path_call # None =>
        LET c == path_call.val
        IN  /\ c.path = C9_Expected(layout.val.job_id, c.kind, c.item_id, c.name)
            /\ IsPrefix(<<"jobs", "/">> \o layout.val.job_id \o <<"/">>, c.path)
            /\ c.previous # None =>
                  ((c.previous.val.kind = c.kind /\ c.previous.val.item_id = c.item_id
                    /\ c.previous.val.name = c.name) => c.previous.val.path = c.path)

\* C9: every CanonicalLayout path has the documented form, starts with
\* job_root, is the same for the same inputs, and computing it changes
\* neither the layout nor the store.
C9_LayoutPure ==
    /\ [](C9_PathsAsDocumented)
    /\ [][pc = "layout" => layout' = layout /\ store' = store /\ err' = err]_vars

C9_Witness ==
    /\ path_call # None
    /\ path_call.val.kind = "asset_path"
    /\ path_call.val.item_id = <<"item-456">>
    /\ path_call.val.name = <<"analysis.tif">>
    /\ path_call.val.previous # None
    /\ path_call.val.previous.val.kind = "asset_path"
    /\ path_call.val.previous.val.path = path_call.val.path

\* the asset stored under key in an item document
AssetAt(doc, key) == (CHOOSE i \in 1..Len(doc.assets) : doc.assets[i].key = key)

UriSchemes == {"s3:", "http:", "https:", "file:"}
IsRelativeRef(h) == h # <<>> /\ h[1] # "/" /\ h[1] \notin UriSchemes

CatalogWritten == catalog # None /\ catalog.val.err = "none"

\* the references of an item document other than the primary asset href
OtherItemRefs(doc, primary_key) ==
    {doc.assets[k].asset.href : k \in {j \in 1..Len(doc.assets) : doc.assets[j].key # primary_key}}
    \cup {doc.links[k].href : k \in 1..Len(doc.links)}

C12_AbsoluteNameRejected ==
    (href_call # None /\ href_call.val.kind = "resolve_thumbnail_href"
        /\ ~IsRelativeRef(href_call.val.name))
    => href_call.val.err # "none"

\* the links with relation rel of a document, in document order
LinksOf(doc, rel) ==
    LET idx == {k \in 1..Len(doc.links) : doc.links[k].rel = rel}
        F[n \in 0..Len(doc.links)] ==
            IF n = 0 THEN <<>>
            ELSE IF n \in idx THEN Append(F[n - 1], doc.links[n].href) ELSE F[n - 1]
    IN  F[Len(doc.links)]

\* the catalog write_stac_catalog is to return for plan p
C13_CatalogOf(cat, p) ==
    /\ cat.err = "none"
    /\ Len(cat.items) = Len(p.items)
    /\ \A i \in 1..Len(p.items) :
          LET doc == cat.items[i].object
          IN  /\ doc.id = p.items[i].item_id
              /\ LinksOf(doc, "root") = << <<"..", "/", "collection.json">> >>
              /\ LinksOf(doc, "collection") = << <<"..", "/", "collection.json">> >>
              /\ LinksOf(doc, "self") = << p.items[i].item_id \o <<".json">> >>
    /\ LinksOf(cat.collection.object, "item")
          = [i \in 1..Len(p.items) |-> <<"items", "/">> \o p.items[i].item_id \o <<".json">>]

\* C13: whenever write_stac_catalog was invoked on a plan that passes
\* validate(), it returned a catalog with one item document per plan item in
\* plan order, one rel=item link items/<item_id>.json per item, and in every
\* item document root and collection links ../collection.json and a self
\* link <item_id>.json.
C13_ValidPlanWritten ==
    (plan # None /\ validate(plan.val) = "none" /\ writerCalls > 0) =>
        (catalog # None /\ C13_CatalogOf(catalog.val, plan.val))

Occurrences(r, tag) == Cardinality({k \in 1..Len(r) : r[k] = tag})
IsOtherRole(x) == x \notin {"data", "primary"}
GivenRoles(it) ==
    IF it.analyzer_output.primary_cog_asset.val.roles = None THEN <<>>
    ELSE it.analyzer_output.primary_cog_asset.val.roles.val

C14_RolesNormalized ==
    stac_item # None =>
        LET roles == stac_item.val.assets[1].asset.roles.val
        IN  /\ stac_item.val.assets[1].key = pitem.val.analyzer_output.primary_cog_asset.val.key
            /\ Occurrences(roles, "data") = 1
            /\ Occurrences(roles, "primary") = 1
            /\ SelectSeq(roles, IsOtherRole) = SelectSeq(GivenRoles(pitem.val), IsOtherRole)
            /\ \A k \in 1..Len(GivenRoles(pitem.val)) : roles[k] = GivenRoles(pitem.val)[k]

PrimaryAssets(doc) ==
    {k \in 1..Len(doc.assets) :
        /\ doc.assets[k].asset.roles # None
        /\ "primary" \in Range(doc.assets[k].asset.roles.val)
        /\ "data" \in Range(doc.assets[k].asset.roles.val)}

\* C15: write_stac_catalog returns a catalog only if every item document
\* has exactly one asset with both the "data" and the "primary" role and
\* that asset's href is an absolute store reference (s3://...).
C15_ExactlyOnePrimary ==
    (catalog # None /\ catalog.val.err = "none") =>
        \A i \in 1..Len(catalog.val.items) :
            LET doc == catalog.val.items[i].object
            IN  /\ Cardinality(PrimaryAssets(doc)) = 1
                /\ \A k \in PrimaryAssets(doc) :
                      IsPrefix(<<"s3:", "/", "/">>, doc.assets[k].asset.href)

\* C16: in a dry run the pipeline reports job_id, item_count and
\* feature_count without invoking Analyzer.analyze, the vector-tile
\* generator, write_stac_catalog or any store operation.
C16_DryRunInvokesNothing ==
    (mode = "pipeline" /\ dry_run) =>
        /\ calls = <<>>
        /\ pmtiles_local = None
        /\ store = EmptyDict /\ writerCalls = 0
        /\ pc = "done" =>
              /\ result # None
              /\ result.val.job_id = plan.val.job_id
              /\ result.val.item_count = item_count(plan.val)
              /\ result.val.feature_count = feature_count(plan.val)

\* failures of the store itself
StoreErrors == {"Error accessing S3 bucket", "upload failed"}

PmtilesLinks(cat) == LinksOf(cat.collection.object, "pmtiles")

\* C17: after the vector-tile generator failed, pmtiles_path stays unset and
\* the run goes on to publish and completes (short of a failure of the store
\* itself): no rel=pmtiles link, no vector-tile object, pmtiles_generated
\* false; after it succeeded the collection has exactly one rel=pmtiles link.
C17_GeneratorFailureNonFatal ==
    (mode = "pipeline" /\ validated /\ pc # "prepare") =>
        /\ (plan.val.pmtiles_path = None) <=> (pmtiles_local = None)
        /\ result # None => result.val.pmtiles_generated = (pmtiles_local # None)
        /\ pmtiles_local = None =>
              /\ pmtiles_path(CanonicalLayout(plan.val.job_id)) \notin DOMAIN store
              /\ pc = "failed" => err \in StoreErrors
        /\ CatalogWritten =>
              Len(PmtilesLinks(catalog.val)) = IF pmtiles_local = None THEN 0 ELSE 1

\* the class is not an Analyzer with a name accessor and an analyze operation whose
\* parameters are exactly (self, feature, timespan)
C18_InvalidInterface(c) ==
    \/ validate_plugin(c) # "none"
    \/ c.params # AnalyzeParams

\* C18: registering a class that is not an Analyzer exposing name and
\* analyze(self, feature, timespan) raises and leaves the registry as it was, and
\* every class create_analyzer instantiates has the valid interface
C18_RegistrationValidates ==
    reg_call # None =>
        /\ (reg_call.val.op = "register" /\ C18_InvalidInterface(reg_call.val.cls.val)) =>
               /\ reg_call.val.err # "none"
               /\ analyzers.val = reg_call.val.before
        /\ (reg_call.val.op = "create_analyzer" /\ reg_call.val.err = "none") =>
               ~C18_InvalidInterface(reg_call.val.cls.val)

\* for_feature has been called on a constructed provider
C19_Resolved == time_provider # None /\ tp_call # None /\ "out" \in DOMAIN tp_call.val

\* C19: a DeclarativeTimeProvider with an extractor outside the five kinds is never
\* constructed, and no for_feature call ends with the unsupported-extractor error
C19_UnknownExtractorFailsConstruction ==
    /\ time_provider # None => time_provider.val.extractor \in ValidExtractors
    /\ C19_Resolved => tp_call.val.out.err # "ValueError: Unsupported extractor"

\* C20: with one of the five extractor kinds, for_feature returns a list for every
\* feature and raises nothing
C20_ForFeatureNeverRaises ==
    (C19_Resolved /\ time_provider.val.extractor \in ValidExtractors) =>
        tp_call.val.out.err = "none"

\* the value for_feature found at the configured field of the feature of the last call
FieldValue == get_nested_value(tp_call.val.feature, time_provider.val.field)

\* a string that spells a date in a format the provider is configured to read
IsParseableDate(self, v) ==
    /\ v.ty = "str"
    /\ IF self.format_str = "auto"
       THEN v.form \in Range(AutoFormats) \cup IsoOnlyForms
       ELSE v.form = self.format_str

\* C21: with attribute_date and fanout.as_list set, a list of n parseable dates
\* resolves to n instant timespans, the j-th at the instant of the j-th element;
\* with as_list unset a list resolves to the empty list
C21_ListFanout ==
    (C19_Resolved /\ time_provider.val.extractor = "attribute_date" /\ FieldValue.ty = "list") =>
        /\ tp_call.val.out.err = "none"
        /\ (/\ time_provider.val.config.as_list
            /\ \A j \in 1..Len(FieldValue.items) :
                  IsParseableDate(time_provider.val, FieldValue.items[j])) =>
               /\ Len(tp_call.val.out.spans) = Len(FieldValue.items)
               /\ \A j \in 1..Len(FieldValue.items) :
                     /\ is_instant(tp_call.val.out.spans[j])
                     /\ tp_call.val.out.spans[j].start = DateTime(FieldValue.items[j].t, TRUE)
        /\ ~time_provider.val.config.as_list => tp_call.val.out.spans = <<>>

\* a fan-out of two dates given in descending order
C21_Witness ==
    /\ C19_Resolved /\ time_provider.val.extractor = "attribute_date"
    /\ time_provider.val.config.as_list
    /\ FieldValue.ty = "list" /\ Len(FieldValue.items) = 2
    /\ Len(tp_call.val.out.spans) = 2
    /\ tp_call.val.out.spans[1].start.t > tp_call.val.out.spans[2].start.t

\* for_feature was called with from_epoch on a feature whose field holds an int
C22_EpochCall ==
    /\ C19_Resolved /\ time_provider.val.extractor = "from_epoch"
    /\ FieldValue.ty = "int"

\* the last call returned the single instant t
C22_ResolvedTo(t) ==
    /\ tp_call.val.out.err = "none"
    /\ tp_call.val.out.spans = <<TimeSpan(DateTime(t, TRUE), None)>>

\* C22 as stated: a value s with 0 < s <= 4102444800 resolves to the instant s
\* (it is not divided), and the value 1000*s of every such s resolves to that
\* same instant s
C22_SecondsAndMillisAgree ==
    C22_EpochCall =>
        /\ (FieldValue.n > 0 /\ FieldValue.n <= EpochThreshold) => C22_ResolvedTo(FieldValue.n)
        /\ (/\ FieldValue.n % 1000 = 0 /\ FieldValue.n > 0
            /\ FieldValue.n \div 1000 <= EpochThreshold) =>
               C22_ResolvedTo(FieldValue.n \div 1000)

\* C22 amended: a value at or below the threshold is never divided and resolves
\* to its own instant; the value 1000*s resolves to the instant s exactly when
\* 1000*s exceeds the threshold
C22_EpochHeuristic ==
    C22_EpochCall =>
        /\ (FieldValue.n > 0 /\ FieldValue.n <= EpochThreshold) => C22_ResolvedTo(FieldValue.n)
        /\ (/\ FieldValue.n % 1000 = 0 /\ FieldValue.n > EpochThreshold
            /\ FieldValue.n \div 1000 <= EpochThreshold) =>
               C22_ResolvedTo(FieldValue.n \div 1000)

\* a millisecond value above the threshold resolved to its instant in seconds
C22_Witness ==
    /\ C22_EpochCall
    /\ FieldValue.n % 1000 = 0 /\ FieldValue.n > EpochThreshold
    /\ C22_ResolvedTo(FieldValue.n \div 1000)

\* every path publish_plan may write for plan p: the layout's paths for the
\* job_id, item_ids and asset keys of p
C23_PlanPaths(p) ==
    LET lay == CanonicalLayout(p.job_id)
        keys(it) == {it.analyzer_output.primary_cog_asset.val.key}
                    \cup {it.analyzer_output.additional_assets[k].key :
                             k \in 1..Len(it.analyzer_output.additional_assets)}
    IN  {collection_path(lay), pmtiles_path(lay)}
        \cup {item_path(lay, p.items[i].item_id) : i \in 1..Len(p.items)}
        \cup UNION {UNION {{asset_path(lay, p.items[i].item_id, k),
                             thumb_path(lay, p.items[i].item_id, k)} : k \in keys(p.items[i])} :
                       i \in 1..Len(p.items)}

\* once a publish_plan call has completed, every later call leaves the target with
\* the same paths and contents
C23_SameTarget ==
    \A i, j \in 1..Len(pub_log) :
        (i < j /\ pub_log[i].complete) => pub_log[j].store = pub_log[i].store

C24_Props(feature) == IF feature.pkind = "absent" THEN EmptyDict ELSE feature.properties

C24_HasId(feature) ==
    /\ feature.pkind = "dict"
    /\ "feature_id" \in DOMAIN feature.properties
    /\ feature.properties["feature_id"] # EmptyStr

\* the step in which the time resolver is called with feature number fi
C24_ResolverCalled == pc = "feature" /\ resolved' # resolved

\* the feature handed to the resolver: its id is present; an id it already
\* had is kept; a missing or empty one is a fresh ULID behind ids.prefix;
\* every other property, the geometry and every other feature are as before
C24_EnsuredAtResolve ==
    C24_ResolverCalled =>
        LET old == features[fi]
            new == features'[fi]
            oldp == C24_Props(old)
        IN  /\ C24_HasId(new)
            /\ IF "feature_id" \in DOMAIN oldp /\ oldp["feature_id"] # EmptyStr
               THEN new.properties = oldp /\ nextUlid' = nextUlid
               ELSE /\ new.properties["feature_id"] = config.ids_prefix \o new_ulid(nextUlid + 1)
                    /\ nextUlid' = nextUlid + 1
                    /\ new.properties["feature_id"] \notin {job_id} \cup {items[i].item_id : i \in 1..Len(items)}
            /\ DOMAIN new.properties = DOMAIN oldp \cup {"feature_id"}
            /\ \A k \in DOMAIN oldp \ {"feature_id"} : new.properties[k] = oldp[k]
            /\ new.geometry = old.geometry
            /\ \A j \in 1..Len(features) : j # fi => features'[j] = features[j]

\* C24: the feature passed to the time resolver and to the Analyzer has a
\* non-empty feature_id; create_publish_plan keeps an existing non-empty id,
\* replaces an absent or empty one by a new identifier that begins with
\* ids.prefix, and changes nothing else of the feature
C24_FeatureIdEnsured ==
    /\ [][C24_EnsuredAtResolve]_vars
    /\ [](\A i \in 1..Len(calls) : C24_HasId(calls[i].feature) /\ calls[i].feature = features[calls[i].fi])

\* the Analyzer has been called with a feature whose id was generated behind a non-empty prefix
C24_Witness ==
    /\ mode = "orchestrator"
    /\ config.ids_prefix # EmptyStr
    /\ calls # <<>>
    /\ calls[1].feature.properties["feature_id"] = config.ids_prefix \o new_ulid(2)
    /\ "name" \in DOMAIN calls[1].feature.properties

(* C25: timespans of the declarative resolver *)

C25_WellFormed(ts) ==
    /\ ts.start.aware
    /\ ts.end # None => ts.end.val.aware /\ ts.end.val.t > ts.start.t

\* C25: every TimeSpan that for_feature returns has timezone-aware endpoints
\* and either no end or an end strictly later than its start
C25_SpansOrdered ==
    (tp_call # None /\ "out" \in DOMAIN tp_call.val /\ tp_call.val.out.err = "none")
        => \A i \in 1..Len(tp_call.val.out.spans) : C25_WellFormed(tp_call.val.out.spans[i])

(* C26: publish, then verify *)

\* C26: once the plan is built and validated, a non-dry run calls publish_plan
\* and then verify_publication: short of a failure of the store itself it can
\* end only with the result of a passed verification or with the error of a
\* failed one
C26_PublishThenVerify ==
    (mode = "pipeline" /\ ~dry_run /\ validated) =>
        /\ result # None => verified = Some(TRUE) /\ result.val.verification_passed
        /\ verified = Some(FALSE) => result = None
        /\ pc = "failed" => \/ err \in StoreErrors
                            \/ verified = Some(FALSE) /\ err = "Publication verification failed"

(* C27: discover_plugins runs once per directory *)

\* a discover_plugins call on an existing directory that an earlier call was made on
C27_LaterCall ==
    /\ plugin_dirs # None /\ plugin_dirs' # None
    /\ plugin_dirs'.val.ncalls = plugin_dirs.val.ncalls + 1
    /\ plugin_dirs'.val.directory \in plugin_dirs.val.scanned

\* C27: an existing directory that discover_plugins has run on is recorded as
\* discovered, and every later discover_plugins on it loads no module and
\* leaves the registered analyzers unchanged
C27_DiscoveredOnce ==
    /\ [](plugin_dirs # None => plugin_dirs.val.scanned \subseteq plugin_dirs.val.discovered)
    /\ [][C27_LaterCall => plugin_dirs'.val.loads = plugin_dirs.val.loads /\ analyzers' = analyzers]_vars

(* C28: relative hrefs and storage paths *)

\* the position of the last "/" of a path, 0 if it has none
C28_LastSlash(path) ==
    LET idx == {i \in 1..Len(path) : path[i] = "/"}
    IN  IF idx = {} THEN 0 ELSE CHOOSE i \in idx : \A j \in idx : j <= i

\* the directory of a path, with its trailing "/"
C28_Dir(path) == SubSeq(path, 1, C28_LastSlash(path))

\* a relative reference appended to a directory, each leading "../" going one level up
RECURSIVE C28_Join(_, _)
C28_Join(dir, href) ==
    IF Len(href) >= 2 /\ href[1] = ".." /\ href[2] = "/" /\ dir # <<>>
    THEN C28_Join(C28_Dir(SubSeq(dir, 1, Len(dir) - 1)), SubSeq(href, 3, Len(href)))
    ELSE dir \o href

\* a relative href resolved against the path of the document that holds it
C28_Resolve(doc_path, href) == C28_Join(C28_Dir(doc_path), href)

\* where the publisher stores an additional asset
C28_StoredAt(lay, iid, asset) ==
    IF asset.roles # None /\ "thumbnail" \in Range(asset.roles.val)
    THEN thumb_path(lay, iid, asset.key)
    ELSE asset_path(lay, iid, asset.key)

\* the vector-tile link of the collection leads to the vector-tile object
C28_PmtilesHrefResolves ==
    CatalogWritten =>
        \A k \in 1..Len(PmtilesLinks(catalog.val)) :
            C28_Resolve(catalog.val.collection.path, PmtilesLinks(catalog.val)[k])
                = pmtiles_path(CanonicalLayout(plan.val.job_id))

\* C28: in the written catalog every additional asset's href, resolved against
\* the path of its item document, is the path the publisher stores the asset
\* at, and the collection's vector-tile href resolved against the collection
\* document's path is pmtiles_path
C28_HrefsResolveToStoredPaths ==
    /\ C28_PmtilesHrefResolves
    /\ CatalogWritten =>
          \A i \in 1..Len(catalog.val.items) :
              LET doc == catalog.val.items[i]
                  extra == plan.val.items[i].analyzer_output.additional_assets
              IN  \A k \in 1..Len(extra) :
                      /\ doc.path = item_path(CanonicalLayout(plan.val.job_id), plan.val.items[i].item_id)
                      /\ C28_Resolve(doc.path, doc.object.assets[AssetAt(doc.object, extra[k].key)].asset.href)
                            = C28_StoredAt(CanonicalLayout(plan.val.job_id), plan.val.items[i].item_id, extra[k])

(* C29: a rejected plan leaves the store alone *)

\* publish_plan ended because its call of write_stac_catalog raised
C29_WriterRaised ==
    /\ pc = "failed"
    /\ writerCalls > 0
    /\ plan # None
    /\ write_stac_catalog(plan.val, config).err # "none"
    /\ err = write_stac_catalog(plan.val, config).err

\* C29: when write_stac_catalog raises during publish_plan, the store is as it
\* was before the call: it holds no asset, no document and no vector-tile
\* object of the job
C29_RejectedPlanWritesNothing ==
    C29_WriterRaised => store = EmptyDict

(* C30: the two feature counts of a plan *)

\* C30: in every plan create_publish_plan returns, the feature_count of
\* collection_metadata is the plan's feature_count, the number of distinct
\* feature_id values among its items
C30_MetadataFeatureCount ==
    PlanReturned =>
        plan.val.collection_metadata.feature_count = feature_count(plan.val)


====
